---- MODULE Spec2Model ----
(***************************************************************************)
(* Personal Primer: the daily curation pipeline (generateDailyBundle), the *)
(* GET /api/today handler around it, the conversation and session-end      *)
(* handlers and the arc lifecycle, for one user.                            *)
(*                                                                          *)
(* Strings whose content the code inspects (titles, creators, identifiers) *)
(* are sequences of one-character strings, so that normalizeCreatorName is *)
(* computed character by character as the code does.  Every await of      *)
(* generateDailyBundle, handleGetToday and extractAndEndSession is one      *)
(* action; the message handler is one action.  The store is shared by all   *)
(* handlers.  SpecGen runs the pipeline alone, over every answer of the     *)
(* generation service and the resolvers, and SpecGenLive adds that every    *)
(* awaited call returns; Spec runs the handlers of one user one request at *)
(* a time, over several days; SpecRace runs two overlapping GET /api/today *)
(* requests of the user; SpecPure applies the pure functions               *)
(* (determinePhase, normalizeCreatorName, the insight sanitizer and the    *)
(* prompt builders) and the music and reading resolvers to arguments drawn *)
(* from bounded sets.                                                      *)
(***************************************************************************)
EXTENDS Integers, Sequences, FiniteSets, TLC

(***************************************************************************)
(* Program constants.                                                       *)
(***************************************************************************)
MAX_MUSIC_RETRIES == 5
MAX_IMAGE_RETRIES == 3
MAX_TEXT_RETRIES == 3
\* getRecentExposures(userId, 14) / getRecentInsights(userId, 14)
EXPOSURE_WINDOW_DAYS == 14
\* targetDurationDays of every arc the code creates
TARGET_DURATION_DAYS == 7
\* getActiveArc reads the 10 most recent arcs
ACTIVE_ARC_QUERY_LIMIT == 10
PENDING_ARC_QUERY_LIMIT == 5     \* getPendingArc: .limit(5)

(***************************************************************************)
(* Bounds of the model.                                                     *)
(***************************************************************************)
\* longest issues[] list a coherence verdict carries
MaxIssues == 2
\* number of times the calendar day advances
MaxDayAdvances == 1
\* user messages per conversation
MaxMessages == 1

(***************************************************************************)
(* Optional values: <<>> is null/undefined, <<x>> is a present value.       *)
(***************************************************************************)
None == <<>>
Some(x) == <<x>>
IsSome(o) == o # <<>>
TheOf(o) == o[1]

Max(a, b) == IF a >= b THEN a ELSE b

(***************************************************************************)
(* Strings as character sequences.                                          *)
(***************************************************************************)
toLowerCase(c) ==
  CASE c = "A" -> "a" [] c = "B" -> "b" [] c = "C" -> "c" [] c = "D" -> "d"
    [] c = "E" -> "e" [] c = "F" -> "f" [] c = "G" -> "g" [] c = "H" -> "h"
    [] c = "I" -> "i" [] c = "J" -> "j" [] c = "K" -> "k" [] c = "L" -> "l"
    [] c = "M" -> "m" [] c = "N" -> "n" [] c = "O" -> "o" [] c = "P" -> "p"
    [] c = "Q" -> "q" [] c = "R" -> "r" [] c = "S" -> "s" [] c = "T" -> "t"
    [] c = "U" -> "u" [] c = "V" -> "v" [] c = "W" -> "w" [] c = "X" -> "x"
    [] c = "Y" -> "y" [] c = "Z" -> "z" [] OTHER -> c

\* the characters the regular expression \s matches, of those the model uses
IsWhitespace(c) == c \in {" ", "\t", "\n"}

\* s.toLowerCase()
LowerAll(s) == [i \in 1..Len(s) |-> toLowerCase(s[i])]

\* s.replace(/\./g, '')
RECURSIVE RemovePeriods(_)
RemovePeriods(s) ==
  IF s = <<>> THEN <<>>
  ELSE IF Head(s) = "." THEN RemovePeriods(Tail(s))
  ELSE <<Head(s)>> \o RemovePeriods(Tail(s))

\* s.replace(/\s+/g, ' '): every maximal run of whitespace becomes one space
RECURSIVE CollapseWhitespace(_)
CollapseWhitespace(s) ==
  IF s = <<>> THEN <<>>
  ELSE IF IsWhitespace(Head(s))
       THEN IF Tail(s) # <<>> /\ IsWhitespace(Head(Tail(s)))
            THEN CollapseWhitespace(Tail(s))
            ELSE <<" ">> \o CollapseWhitespace(Tail(s))
       ELSE <<Head(s)>> \o CollapseWhitespace(Tail(s))

RECURSIVE TrimStart(_)
TrimStart(s) ==
  IF s # <<>> /\ IsWhitespace(Head(s)) THEN TrimStart(Tail(s)) ELSE s

RECURSIVE TrimEnd(_)
TrimEnd(s) ==
  IF s # <<>> /\ IsWhitespace(s[Len(s)])
  THEN TrimEnd(SubSeq(s, 1, Len(s) - 1))
  ELSE s

\* s.trim()
Trim(s) == TrimEnd(TrimStart(s))

\* a faulty variant that trims before it removes the periods
normalizeCreatorName_trimFirst(name) ==
  CollapseWhitespace(RemovePeriods(Trim(LowerAll(name))))

\* bundleGenerator.normalizeCreatorName:
\* name.toLowerCase().replace(/\./g, '').replace(/\s+/g, ' ').trim(), each
\* stage applied to the value of the stage before it
normalizeCreatorName(name) ==
  CHOOSE trimmed \in
    {Trim(collapsed) : collapsed \in
       {CollapseWhitespace(bare) : bare \in
          {RemovePeriods(lower) : lower \in {LowerAll(name)}}}} : TRUE

\* the template `${title} - ${artist}`
TitleDashArtist(title, artist) == title \o <<" ", "-", " ">> \o artist

(***************************************************************************)
(* What the content generation service may answer (the model's alphabet of *)
(* artifacts).  ImageNightVariant and TextRilkeVariant differ from the      *)
(* artifacts of earlier bundles only in case, periods and whitespace.       *)
(***************************************************************************)
MusicFratres ==
  [title |-> <<"F", "r", "a", "t", "r", "e", "s">>,
   artist |-> <<"P", "a", "r", "t">>,
   composer |-> <<"P", "a", "r", "t">>]
MusicBlue ==
  [title |-> <<"B", "l", "u", "e">>,
   artist |-> <<"M", "i", "l", "e", "s">>,
   composer |-> <<>>]
ImageNight ==
  [title |-> <<"N", "i", "g", "h", "t">>,
   artist |-> <<"V", ".", " ", "G", "o", "g", "h">>]
ImageNightVariant ==
  [title |-> <<"n", "i", "g", "h", "t", " ">>,
   artist |-> <<"V", " ", " ", "G", "o", "g", "h", ".">>]
ImageIris ==
  [title |-> <<"I", "r", "i", "s">>,
   artist |-> <<"M", "o", "n", "e", "t">>]
TextRilke ==
  [content |-> <<"q", "1">>,
   source |-> <<"L", "e", "t", "t", "e", "r", "s">>,
   author |-> <<"R", ".", "M", ".", " ", "R", "i", "l", "k", "e">>]
TextRilkeVariant ==
  [content |-> <<"q", "2">>,
   source |-> <<"E", "l", "e", "g", "i", "e", "s">>,
   author |-> <<"r", "m", " ", " ", "R", "i", "l", "k", "e", " ">>]
TextBasho ==
  [content |-> <<"q", "3">>,
   source |-> <<"R", "o", "a", "d">>,
   author |-> <<"B", "a", "s", "h", "o">>]

MusicAnswers == {MusicFratres, MusicBlue}
ImageAnswers == {ImageNight, ImageNightVariant, ImageIris}
TextAnswers == {TextRilkeVariant, TextBasho}

ArtifactTypes == {"music", "image", "text"}

\* CoherenceCheck.issues: each issue is tagged with one artifact type
RECURSIVE SeqsUpTo(_, _)
SeqsUpTo(S, n) ==
  IF n = 0 THEN {<<>>}
  ELSE LET shorter == SeqsUpTo(S, n - 1)
       IN shorter \cup {Append(q, x) : q \in shorter, x \in S}
IssueLists == SeqsUpTo(ArtifactTypes, MaxIssues)
CoherenceAnswers == [isCoherent : BOOLEAN, issues : IssueLists]

\* what happens inside a resolver: an entry matches, no search has a match,
\* a fetch is rejected (network error), or a search API answers non-OK
ResolverOutcomes == {"found", "notFound", "fetchError", "searchNotOk"}

\* every answer of the model's alphabet
FullService ==
  [music |-> MusicAnswers, image |-> ImageAnswers, text |-> TextAnswers,
   coherence |-> CoherenceAnswers, links |-> ResolverOutcomes]

(***************************************************************************)
(* State.                                                                   *)
(***************************************************************************)
VARIABLES
  now,            \* the calendar day (Date.now(), in days)
  dayAdvances,    \* how often the day has advanced (bounded by MaxDayAdvances)
  llm,            \* what the generation service and the link resolvers may
                  \* answer in this behaviour (never changes)
  arcs,           \* users/{uid}/arcs: sequence of arc documents, in creation order
  bundles,        \* users/{uid}/dailyBundles: date id -> bundle document
  exposures,      \* users/{uid}/exposures: set of exposure documents
  conversations,  \* users/{uid}/conversations: date id -> conversation document
  insights,       \* users/{uid}/sessionInsights: date id -> insights document
  gen,            \* the generateDailyBundle invocation in flight (its locals)
  today,          \* the handleGetToday request in flight (its locals)
  es,             \* the extractAndEndSession invocation in flight (its locals)
  calc,           \* the call of a pure function being examined: its arguments
                  \* and its result
  parked,         \* the locals of a second request of the same user
                  \* (handleGetToday, or extractAndEndSession), suspended at
                  \* an await while the first one runs
  runs            \* the dates for which handleGetToday has called
                  \* generateDailyBundle; kept for the current day only

storeVars == <<arcs, bundles, exposures, conversations, insights>>
envVars == <<now, dayAdvances, llm, calc, parked, runs>>
vars == <<now, dayAdvances, llm, arcs, bundles, exposures, conversations, insights,
          gen, today, es, calc, parked, runs>>

\* no pure function is being examined
CalcIdle == [op |-> "none"]

(***************************************************************************)
(* firestore.ts: arcs.                                                      *)
(***************************************************************************)
ArcDocs == {arcs[i] : i \in 1..Len(arcs)}

\* orderBy('startDate', 'desc'): a precedes b in the query result
ArcBefore(a, b) ==
  \/ a.startDate > b.startDate
  \/ a.startDate = b.startDate /\ a.id > b.id

ArcRank(a) == Cardinality({b \in ArcDocs : ArcBefore(b, a)})

\* a faulty variant of getActiveArc: ascending order and no test of
\* completedDate
getActiveArc_oldestOfAll ==
  IF ArcDocs = {} THEN None
  ELSE Some(CHOOSE a \in ArcDocs : \A b \in ArcDocs : ArcRank(a) >= ArcRank(b))

\* getActiveArc: the first document without completedDate among the
\* ACTIVE_ARC_QUERY_LIMIT most recent by startDate; None when there is none
getActiveArc ==
  LET window == {a \in ArcDocs : ArcRank(a) < ACTIVE_ARC_QUERY_LIMIT}
      open == {a \in window : ~IsSome(a.completedDate)}
  IN IF open = {} THEN None
     ELSE Some(CHOOSE a \in open : \A b \in open : ArcRank(a) <= ArcRank(b))

\* createArc: the document written (id = arc-<Date.now()>, unique per call)
NewArc(theme, startDate) ==
  [id |-> Len(arcs) + 1,
   theme |-> theme,
   startDate |-> startDate,
   targetDurationDays |-> TARGET_DURATION_DAYS,
   currentPhase |-> "early",
   completedDate |-> None]

\* updateArcPhase
WithPhase(as, arcId, phase) ==
  [i \in 1..Len(as) |->
     IF as[i].id = arcId THEN [as[i] EXCEPT !.currentPhase = phase] ELSE as[i]]

\* completeArc
WithCompleted(as, arcId, date) ==
  [i \in 1..Len(as) |->
     IF as[i].id = arcId THEN [as[i] EXCEPT !.completedDate = Some(date)] ELSE as[i]]

\* the bundle count of calculateDayInArc's query
BundleCount(arcId) == Cardinality({d \in DOMAIN bundles : bundles[d].arcId = arcId})

\* getPendingArc: the first document without a bundle among the
\* PENDING_ARC_QUERY_LIMIT most recent by startDate; None when there is none
getPendingArc ==
  LET window == {a \in ArcDocs : ArcRank(a) < PENDING_ARC_QUERY_LIMIT}
      pending == {a \in window : BundleCount(a.id) = 0}
  IN IF pending = {} THEN None
     ELSE Some(CHOOSE a \in pending : \A b \in pending : ArcRank(a) <= ArcRank(b))

\* updateArc with the theme, description and shortDescription of a refinement
WithTheme(as, arcId, theme) ==
  [i \in 1..Len(as) |->
     IF as[i].id = arcId THEN [as[i] EXCEPT !.theme = theme] ELSE as[i]]

\* calculateDayInArc
calculateDayInArc(arc) == Max(1, BundleCount(arc.id))

\* faulty variants of determinePhase: one that lets the middle phase run to
\* three quarters of the arc, one that returns the last two phases in the
\* wrong order
determinePhase_threeQuarters(dayInArc, targetDuration) ==
  IF 100 * dayInArc <= 33 * targetDuration THEN "early"
  ELSE IF 100 * dayInArc <= 75 * targetDuration THEN "middle"
  ELSE "late"

determinePhase_swapped(dayInArc, targetDuration) ==
  IF 100 * dayInArc <= 33 * targetDuration THEN "early"
  ELSE IF 100 * dayInArc <= 66 * targetDuration THEN "late"
  ELSE "middle"

\* determinePhase: progress = dayInArc / targetDuration compared with 0.33 and
\* 0.66, in exact arithmetic (progress <= 0.33 iff 100 * dayInArc <= 33 * target)
determinePhase(dayInArc, targetDuration) ==
  IF 100 * dayInArc <= 33 * targetDuration THEN "early"
  ELSE IF 100 * dayInArc <= 66 * targetDuration THEN "middle"
  ELSE "late"

(***************************************************************************)
(* firestore.ts: exposures and insights.                                    *)
(***************************************************************************)
\* getRecentExposures(userId, days): dateShown >= now - days
getRecentExposures(days) == {e \in exposures : e.dateShown >= now - days}

\* getRecentInsights(userId, days)
getRecentInsights(days) ==
  {d \in DOMAIN insights : insights[d].date >= now - days}

(***************************************************************************)
(* linkValidator.ts, seen from the pipeline: a resolver answers null or the *)
(* link of the entry it matched for the candidate it was given.             *)
(***************************************************************************)
UrlFor(prefix, title, artist) == <<prefix, ":">> \o title \o <<"/">> \o artist

\* resolveAppleMusicLink(title, artist, ...): null, or the link found
MusicLinkAnswer(sel, found) ==
  IF found THEN Some([appleMusicUrl |-> UrlFor("a", sel.title, sel.artist)])
  ELSE None

\* resolveImageLink(title, artist, searchQuery): null, or the link found
ImageLinkAnswer(sel, found) ==
  IF found THEN Some([sourceUrl |-> UrlFor("w", sel.title, sel.artist),
                      imageUrl |-> UrlFor("i", sel.title, sel.artist)])
  ELSE None

ResolverError == "link resolver failed"

\* a faulty variant without the try / catch: what is thrown leaves the
\* function
resolveImageLink_uncaught(sel, outcome) ==
  [raised |-> outcome \in {"fetchError", "searchNotOk"},
   value |-> ImageLinkAnswer(sel, outcome = "found")]

\* resolveAppleMusicLink: a non-OK answer of the catalogue skips to the next
\* search (part_002:209-212); what a fetch throws is caught and null is
\* returned (part_002:277-280)
resolveAppleMusicLink(sel, outcome) ==
  LET thrown == outcome = "fetchError"
  IN [raised |-> FALSE,
      value |-> IF thrown THEN None
                ELSE MusicLinkAnswer(sel, outcome = "found")]

\* resolveImageLink: googleSearch throws on a non-OK answer
\* (part_002:107-110); that and what a fetch throws are caught and null is
\* returned (part_002:494-497)
resolveImageLink(sel, outcome) ==
  LET thrown == outcome \in {"fetchError", "searchNotOk"}
  IN [raised |-> FALSE,
      value |-> IF thrown THEN None
                ELSE ImageLinkAnswer(sel, outcome = "found")]

(***************************************************************************)
(* bundleGenerator.ts: generateDailyBundle.                                 *)
(***************************************************************************)
CallKinds ==
  {"select", "coherence", "replaceImage", "replaceText", "altMusic", "altImage",
   "altText", "framing", "resolveMusic", "resolveImage", "updateArcPhase",
   "createBundle", "createExposure"}
GenerationCalls ==
  {"select", "coherence", "replaceImage", "replaceText", "altMusic", "altImage",
   "altText", "framing"}
ResolverCalls == {"resolveMusic", "resolveImage"}
StoreWriteCalls == {"updateArcPhase", "createBundle", "createExposure"}

NoCalls == [k \in CallKinds |-> 0]
Bump(calls, kind) == [calls EXCEPT ![kind] = @ + 1]

NoActiveArcError == "No active arc found. Please create an arc first."
GenerationError == "generateJSON failed"

\* the locals of an invocation that has not started
GenIdle ==
  [pc |-> "idle", via |-> "none", bundleId |-> 0,
   arc |-> None, dayInArc |-> 0, exposures |-> {}, insights |-> {},
   music |-> None, image |-> None, text |-> None,
   coherence |-> None, issueIdx |-> 0,
   musicLink |-> None, imageLink |-> None,
   failedMusic |-> 0, failedImage |-> 0, failedText |-> 0,
   musicAlt |-> None, imageAlt |-> None, textAlt |-> None,
   replacementPrompt |-> None,
   framingPrompt |-> None, framing |-> None,
   bundle |-> None, error |-> None, threw |-> "none",
   calls |-> NoCalls, warnings |-> {}]

\* a rejected promise: the exception of the step named leaves
\* generateDailyBundle
Throw(g, step, message) ==
  [g EXCEPT !.pc = "failed", !.error = Some(message), !.threw = step]

\* recentImageIdentifiers (lines 669-674)
recentImageIdentifiers(exps) ==
  {normalizeCreatorName(e.artifactIdentifier) :
     e \in {x \in exps : x.artifactType = "image" /\ x.artifactIdentifier # <<>>}}

\* isRecentImageDuplicate (lines 677-680)
isRecentImageDuplicate(img, exps) ==
  normalizeCreatorName(TitleDashArtist(img.title, img.artist))
    \in recentImageIdentifiers(exps)

\* recentTextAuthors (lines 736-741)
recentTextAuthors(exps) ==
  {normalizeCreatorName(e.creator) :
     e \in {x \in exps : x.artifactType = "text" /\ x.creator # <<>>}}

\* a faulty variant: the author is compared as written, without
\* normalization
isRecentTextAuthor_asWritten(txt, exps) ==
  txt.author \in {e.creator : e \in {x \in exps : x.artifactType = "text"}}

isRecentTextAuthor(txt, exps) ==
  normalizeCreatorName(txt.author) \in recentTextAuthors(exps)

\* faulty variants of the loop conditions: a music loop that allows one more
\* alternative, an image loop that does not look at the exposures
MusicLoopContinues_oneMore(link, failed) ==
  ~IsSome(link) /\ failed < MAX_MUSIC_RETRIES + 1

ImageLoopContinues_linkOnly(link, img, failed, exps) ==
  ~IsSome(link) /\ failed < MAX_IMAGE_RETRIES

TextLoopContinues_oneMore(txt, failed, exps) ==
  isRecentTextAuthor(txt, exps) /\ failed < MAX_TEXT_RETRIES + 1

\* the while conditions of the three retry loops
MusicLoopContinues(link, failed) ==
  ~IsSome(link) /\ failed < MAX_MUSIC_RETRIES

ImageLoopContinues(link, img, failed, exps) ==
  (~IsSome(link) \/ isRecentImageDuplicate(img, exps)) /\ failed < MAX_IMAGE_RETRIES

TextLoopContinues(txt, failed, exps) ==
  isRecentTextAuthor(txt, exps) /\ failed < MAX_TEXT_RETRIES

\* the console.warn lines after each loop
MusicWarnings(link) == IF IsSome(link) THEN {} ELSE {"musicNoLink"}
ImageWarnings(link, img, exps) ==
  (IF IsSome(link) THEN {} ELSE {"imageNoLink"})
    \cup (IF isRecentImageDuplicate(img, exps) THEN {"imageDuplicate"} ELSE {})
TextWarnings(txt, exps) ==
  IF isRecentTextAuthor(txt, exps) THEN {"textAuthorRepeated"} ELSE {}

\* faulty variants of the text stage: one that frames without waiting for the
\* text loop, one that aborts when the text loop is exhausted
TextStage_beforeLoop(g, txt, failed) ==
  [g EXCEPT !.pc = "framing",
            !.warnings = @ \cup TextWarnings(txt, g.exposures)]

TextStage_abort(g, txt, failed) ==
  IF TextLoopContinues(txt, failed, g.exposures)
  THEN [g EXCEPT !.pc = "textAlt"]
  ELSE IF isRecentTextAuthor(txt, g.exposures)
       THEN Throw(g, "textLoop", "No unused author found")
       ELSE [g EXCEPT !.pc = "framing"]

\* where the pipeline goes once the text is settled or still to be retried
TextStage(g, txt, failed) ==
  IF TextLoopContinues(txt, failed, g.exposures)
  THEN [g EXCEPT !.pc = "textAlt"]
  ELSE [g EXCEPT !.pc = "framing",
                 !.warnings = @ \cup TextWarnings(txt, g.exposures)]

\* the image loop's test, and the fall-through into step 6
ImageStage(g) ==
  IF ImageLoopContinues(g.imageLink, g.image, g.failedImage, g.exposures)
  THEN [g EXCEPT !.pc = "imageAlt"]
  ELSE TextStage(
         [g EXCEPT !.warnings =
                     @ \cup ImageWarnings(g.imageLink, g.image, g.exposures)],
         g.text, g.failedText)

\* the music loop's test, and the fall-through into step 5
MusicStage(g) ==
  IF MusicLoopContinues(g.musicLink, g.failedMusic)
  THEN [g EXCEPT !.pc = "musicAlt"]
  ELSE [g EXCEPT !.pc = "resolveImage",
                 !.warnings = @ \cup MusicWarnings(g.musicLink)]

\* buildFramingPrompt(arc, dayInArc, music, image, text, insights): what of
\* its arguments the prompt states
buildFramingPrompt(arc, dayInArc, music, image, text, ins) ==
  [arcId |-> arc.id, dayInArc |-> dayInArc, phase |-> arc.currentPhase,
   music |-> [title |-> music.title, artist |-> music.artist],
   image |-> [title |-> image.title, artist |-> image.artist],
   text |-> [content |-> text.content, source |-> text.source,
             author |-> text.author],
   insights |-> ins]

\* the framing text the service writes "speaks to exactly these artifacts":
\* it describes the artifacts its prompt states
FramingAnswer(prompt) ==
  [framingText |-> [music |-> prompt.music, image |-> prompt.image,
                    text |-> prompt.text]]

\* a faulty variant of the bundle object: persisted as already delivered
BuildBundle_delivered(g, date) ==
  [id |-> g.bundleId, date |-> date, arcId |-> TheOf(g.arc).id,
   status |-> "delivered",
   music |-> [title |-> g.music.title, artist |-> g.music.artist,
              composer |-> g.music.composer, appleMusicUrl |-> <<>>],
   image |-> [title |-> g.image.title, artist |-> g.image.artist,
              sourceUrl |-> <<>>, imageUrl |-> <<>>],
   text |-> [content |-> g.text.content, source |-> g.text.source,
             author |-> g.text.author],
   framingText |-> TheOf(g.framing).framingText,
   suggestedReading |-> None]

\* the bundle object of step 8 (lines 776-801)
BuildBundle(g, date) ==
  [id |-> g.bundleId,
   date |-> date,
   arcId |-> TheOf(g.arc).id,
   status |-> "draft",
   music |-> [title |-> g.music.title,
              artist |-> g.music.artist,
              composer |-> g.music.composer,
              appleMusicUrl |-> IF IsSome(g.musicLink)
                                THEN TheOf(g.musicLink).appleMusicUrl ELSE <<>>],
   image |-> [title |-> g.image.title,
              artist |-> g.image.artist,
              sourceUrl |-> IF IsSome(g.imageLink)
                            THEN TheOf(g.imageLink).sourceUrl ELSE <<>>,
              imageUrl |-> IF IsSome(g.imageLink)
                           THEN TheOf(g.imageLink).imageUrl ELSE <<>>],
   text |-> [content |-> g.text.content,
             source |-> g.text.source,
             author |-> g.text.author],
   framingText |-> TheOf(g.framing).framingText,
   suggestedReading |-> None]

\* the exposure documents of a delivered bundle
ExposuresOf(bundle, dateShown) ==
  {[artifactType |-> "music",
    artifactIdentifier |-> TitleDashArtist(bundle.music.title, bundle.music.artist),
    creator |-> IF bundle.music.composer # <<>> THEN bundle.music.composer
                ELSE bundle.music.artist,
    dateShown |-> dateShown, arcId |-> bundle.arcId, bundleId |-> bundle.id],
   [artifactType |-> "image",
    artifactIdentifier |-> TitleDashArtist(bundle.image.title, bundle.image.artist),
    creator |-> bundle.image.artist,
    dateShown |-> dateShown, arcId |-> bundle.arcId, bundleId |-> bundle.id],
   [artifactType |-> "text",
    artifactIdentifier |-> TitleDashArtist(bundle.text.source, bundle.text.author),
    creator |-> bundle.text.author,
    dateShown |-> dateShown, arcId |-> bundle.arcId, bundleId |-> bundle.id]}

\* the earlier single-phase pipeline: the exposures are written with the bundle
GenerateExposures_withBundle(bundle) == ExposuresOf(bundle, bundle.date)

\* the exposure documents generateDailyBundle writes: none (lines 805-807)
GenerateExposures(bundle) == {}

\* a caller other than handleGetToday invokes generateDailyBundle(userId, now)
G_Invoke ==
  /\ gen.pc \in {"idle", "done", "failed"}
  /\ today.pc # "generating"
  /\ now \notin DOMAIN bundles
  /\ gen' = [GenIdle EXCEPT !.pc = "getActiveArc", !.via = "direct",
                            !.bundleId = now]
  /\ UNCHANGED <<envVars, storeVars, today, es>>

\* a faulty variant of step 1: the selection call is made before the arc is
\* looked at
G_GetActiveArc_late ==
  /\ gen.pc = "getActiveArc"
  /\ gen' = IF IsSome(getActiveArc)
            THEN [gen EXCEPT !.pc = "calcDay", !.arc = getActiveArc]
            ELSE Throw([gen EXCEPT !.calls = Bump(@, "select")],
                       "getActiveArc", NoActiveArcError)
  /\ UNCHANGED <<envVars, storeVars, today, es>>

\* step 1: getActiveArc, and the throw when there is none (lines 561-564)
G_GetActiveArc ==
  /\ gen.pc = "getActiveArc"
  /\ gen' = IF IsSome(getActiveArc)
            THEN [gen EXCEPT !.pc = "calcDay", !.arc = getActiveArc]
            ELSE Throw(gen, "getActiveArc", NoActiveArcError)
  /\ UNCHANGED <<envVars, storeVars, today, es>>

\* a faulty variant: the phase is written whether or not it changed
G_CalcDay_always ==
  /\ gen.pc = "calcDay"
  /\ gen' = [gen EXCEPT !.dayInArc = calculateDayInArc(TheOf(gen.arc)) + 1,
                        !.pc = "updatePhase"]
  /\ UNCHANGED <<envVars, storeVars, today, es>>

\* calculateDayInArc + 1 and determinePhase (lines 566-568)
G_CalcDay ==
  /\ gen.pc = "calcDay"
  /\ LET arc == TheOf(gen.arc)
         dayInArc == calculateDayInArc(arc) + 1
         currentPhase == determinePhase(dayInArc, arc.targetDurationDays)
     IN gen' = [gen EXCEPT !.dayInArc = dayInArc,
                           !.pc = IF currentPhase # arc.currentPhase
                                  THEN "updatePhase" ELSE "getExposures"]
  /\ UNCHANGED <<envVars, storeVars, today, es>>

\* a faulty variant: the phase update also closes the arc
G_UpdatePhase_closing ==
  /\ gen.pc = "updatePhase"
  /\ LET arc == TheOf(gen.arc)
         currentPhase == determinePhase(gen.dayInArc, arc.targetDurationDays)
     IN /\ arcs' = WithCompleted(WithPhase(arcs, arc.id, currentPhase), arc.id, now)
        /\ gen' = [gen EXCEPT !.pc = "getExposures",
                              !.arc = Some([arc EXCEPT !.currentPhase = currentPhase]),
                              !.calls = Bump(@, "updateArcPhase")]
  /\ UNCHANGED <<envVars, bundles, exposures, conversations, insights, today, es>>

\* updateArcPhase, when the phase changed (lines 571-574)
G_UpdatePhase ==
  /\ gen.pc = "updatePhase"
  /\ LET arc == TheOf(gen.arc)
         currentPhase == determinePhase(gen.dayInArc, arc.targetDurationDays)
     IN /\ arcs' = WithPhase(arcs, arc.id, currentPhase)
        /\ gen' = [gen EXCEPT !.pc = "getExposures",
                              !.arc = Some([arc EXCEPT !.currentPhase = currentPhase]),
                              !.calls = Bump(@, "updateArcPhase")]
  /\ UNCHANGED <<envVars, bundles, exposures, conversations, insights, today, es>>

\* getRecentExposures(userId, 14) (line 576)
G_GetExposures ==
  /\ gen.pc = "getExposures"
  /\ gen' = [gen EXCEPT !.pc = "getInsights",
                        !.exposures = getRecentExposures(EXPOSURE_WINDOW_DAYS)]
  /\ UNCHANGED <<envVars, storeVars, today, es>>

\* getRecentInsights(userId, 14) (line 577)
G_GetInsights ==
  /\ gen.pc = "getInsights"
  /\ gen' = [gen EXCEPT !.pc = "select",
                        !.insights = getRecentInsights(EXPOSURE_WINDOW_DAYS)]
  /\ UNCHANGED <<envVars, storeVars, today, es>>

\* step 2: the selection call (lines 580-587)
G_Select ==
  /\ gen.pc = "select"
  /\ \E ok \in BOOLEAN, m \in llm.music, i \in llm.image, t \in llm.text :
       gen' = IF ok
              THEN [gen EXCEPT !.pc = "coherence", !.music = m, !.image = i,
                               !.text = t, !.calls = Bump(@, "select")]
              ELSE Throw([gen EXCEPT !.calls = Bump(@, "select")], "select", GenerationError)
  /\ UNCHANGED <<envVars, storeVars, today, es>>

\* step 3: the coherence call and the test of its verdict (lines 590-595)
G_Coherence ==
  /\ gen.pc = "coherence"
  /\ \E ok \in BOOLEAN, c \in llm.coherence :
       gen' = IF ok
              THEN [gen EXCEPT
                      !.pc = IF ~c.isCoherent /\ Len(c.issues) > 0
                             THEN "replace" ELSE "resolveMusic",
                      !.coherence = IF ~c.isCoherent /\ Len(c.issues) > 0
                                    THEN Some(c) ELSE None,
                      !.issueIdx = IF ~c.isCoherent /\ Len(c.issues) > 0
                                   THEN 1 ELSE 0,
                      !.calls = Bump(@, "coherence")]
              ELSE Throw([gen EXCEPT !.calls = Bump(@, "coherence")],
                         "coherence", GenerationError)
  /\ UNCHANGED <<envVars, storeVars, today, es>>

\* a faulty variant: after the last issue the replacements are taken as they
\* are, and the framing call follows
AfterIssue_trusted(g) ==
  IF g.issueIdx + 1 > Len(TheOf(g.coherence).issues)
  THEN [g EXCEPT !.pc = "framing", !.coherence = None, !.issueIdx = 0]
  ELSE [g EXCEPT !.issueIdx = @ + 1]

\* the locals after issue number issueIdx of the verdict has been handled; the
\* verdict is not read again once its last issue has been handled
AfterIssue(g) ==
  IF g.issueIdx + 1 > Len(TheOf(g.coherence).issues)
  THEN [g EXCEPT !.pc = "resolveMusic", !.coherence = None, !.issueIdx = 0]
  ELSE [g EXCEPT !.issueIdx = @ + 1]

\* a faulty variant: the request names no image to avoid
buildCoherenceImageReplacement_noAvoidList(arc, failedImage, text, issue, exps) ==
  [replaces |-> "image", theme |-> arc.theme,
   text |-> [content |-> text.content, author |-> text.author],
   image |-> [title |-> failedImage.title, artist |-> failedImage.artist],
   problem |-> issue, suggestion |-> issue,
   recent |-> {}, recentCreators |-> {}]

\* buildCoherenceImageReplacement (lines 203-244): what of its arguments the
\* request states.  The issue of the verdict stands for its problem and its
\* suggestion.
buildCoherenceImageReplacement(arc, failedImage, text, issue, exps) ==
  [replaces |-> "image", theme |-> arc.theme,
   text |-> [content |-> text.content, author |-> text.author],
   image |-> [title |-> failedImage.title, artist |-> failedImage.artist],
   problem |-> issue, suggestion |-> issue,
   recent |-> {e.artifactIdentifier : e \in {x \in exps : x.artifactType = "image"}},
   recentCreators |->
     {e.creator : e \in {x \in exps : x.artifactType = "image" /\ x.creator # <<>>}}]

\* buildCoherenceTextReplacement (lines 246-287)
buildCoherenceTextReplacement(arc, failedText, image, issue, exps) ==
  [replaces |-> "text", theme |-> arc.theme,
   image |-> [title |-> image.title, artist |-> image.artist],
   text |-> [content |-> failedText.content, author |-> failedText.author],
   problem |-> issue, suggestion |-> issue,
   recent |-> {e.artifactIdentifier : e \in {x \in exps : x.artifactType = "text"}},
   recentCreators |->
     {e.creator : e \in {x \in exps : x.artifactType = "text" /\ x.creator # <<>>}}]

\* an image issue: one replacement call (lines 601-608)
G_ReplaceImage ==
  /\ gen.pc = "replace"
  /\ TheOf(gen.coherence).issues[gen.issueIdx] = "image"
  /\ \E ok \in BOOLEAN, r \in llm.image :
       LET prompt == buildCoherenceImageReplacement(
                       TheOf(gen.arc), gen.image, gen.text,
                       TheOf(gen.coherence).issues[gen.issueIdx], gen.exposures)
           g == [gen EXCEPT !.replacementPrompt = Some(prompt),
                            !.calls = Bump(@, "replaceImage")]
       IN gen' = IF ok
                 THEN AfterIssue([g EXCEPT !.image = r])
                 ELSE Throw(g, "replaceImage", GenerationError)
  /\ UNCHANGED <<envVars, storeVars, today, es>>

\* a text issue: one replacement call (lines 609-616)
G_ReplaceText ==
  /\ gen.pc = "replace"
  /\ TheOf(gen.coherence).issues[gen.issueIdx] = "text"
  /\ \E ok \in BOOLEAN, r \in llm.text :
       LET prompt == buildCoherenceTextReplacement(
                       TheOf(gen.arc), gen.text, gen.image,
                       TheOf(gen.coherence).issues[gen.issueIdx], gen.exposures)
           g == [gen EXCEPT !.replacementPrompt = Some(prompt),
                            !.calls = Bump(@, "replaceText")]
       IN gen' = IF ok
                 THEN AfterIssue([g EXCEPT !.text = r])
                 ELSE Throw(g, "replaceText", GenerationError)
  /\ UNCHANGED <<envVars, storeVars, today, es>>

\* a faulty variant: a music issue is repaired like the other two
G_SkipMusicIssue_replaced ==
  /\ gen.pc = "replace"
  /\ TheOf(gen.coherence).issues[gen.issueIdx] = "music"
  /\ \E r \in llm.music :
       gen' = AfterIssue([gen EXCEPT !.music = r, !.calls = Bump(@, "altMusic")])
  /\ UNCHANGED <<envVars, storeVars, today, es>>

\* a music issue is logged and not repaired (lines 617-618)
G_SkipMusicIssue ==
  /\ gen.pc = "replace"
  /\ TheOf(gen.coherence).issues[gen.issueIdx] = "music"
  /\ gen' = AfterIssue(gen)
  /\ UNCHANGED <<envVars, storeVars, today, es>>

\* step 4: resolveAppleMusicLink for the selection (lines 630-639); the
\* replacement request of the coherence stage is out of scope from here on
G_ResolveMusic ==
  /\ gen.pc = "resolveMusic"
  /\ \E answer \in {resolveAppleMusicLink(gen.music, outcome) : outcome \in llm.links} :
       LET g == [gen EXCEPT !.replacementPrompt = None,
                            !.calls = Bump(@, "resolveMusic")]
       IN gen' = IF answer.raised
                 THEN Throw(g, "resolveMusic", ResolverError)
                 ELSE MusicStage([g EXCEPT !.musicLink = answer.value])
  /\ UNCHANGED <<envVars, storeVars, today, es>>

\* the music loop body up to the alternative (lines 640-649)
G_MusicAlt ==
  /\ gen.pc = "musicAlt"
  /\ \E ok \in BOOLEAN, alternative \in llm.music :
       gen' = IF ok
              THEN [gen EXCEPT !.pc = "musicAltResolve",
                               !.failedMusic = @ + 1,
                               !.musicAlt = Some(alternative),
                               !.music = alternative,
                               !.calls = Bump(@, "altMusic")]
              ELSE Throw([gen EXCEPT !.failedMusic = @ + 1,
                                     !.calls = Bump(@, "altMusic")],
                         "altMusic", GenerationError)
  /\ UNCHANGED <<envVars, storeVars, today, es>>

\* resolveAppleMusicLink for the alternative, and the loop test (lines 655-661)
G_MusicAltResolve ==
  /\ gen.pc = "musicAltResolve"
  /\ \E answer \in {resolveAppleMusicLink(TheOf(gen.musicAlt), outcome) : outcome \in llm.links} :
       LET g == [gen EXCEPT !.calls = Bump(@, "resolveMusic")]
       IN gen' = IF answer.raised
                 THEN Throw(g, "resolveMusic", ResolverError)
                 ELSE MusicStage([g EXCEPT !.musicLink = answer.value])
  /\ UNCHANGED <<envVars, storeVars, today, es>>

\* step 5: resolveImageLink for the selection (lines 683-698)
G_ResolveImage ==
  /\ gen.pc = "resolveImage"
  /\ \E answer \in {resolveImageLink(gen.image, outcome) : outcome \in llm.links} :
       LET g == [gen EXCEPT !.calls = Bump(@, "resolveImage")]
       IN gen' = IF answer.raised
                 THEN Throw(g, "resolveImage", ResolverError)
                 ELSE ImageStage([g EXCEPT !.imageLink = answer.value])
  /\ UNCHANGED <<envVars, storeVars, today, es>>

\* a faulty variant of the image loop body: a duplicate alternative keeps the
\* link of the image before it
G_ImageAlt_keepsLink ==
  /\ gen.pc = "imageAlt"
  /\ \E ok \in BOOLEAN, alternative \in llm.image :
       gen' = IF ~ok
              THEN Throw([gen EXCEPT !.failedImage = @ + 1,
                                     !.calls = Bump(@, "altImage")],
                         "altImage", GenerationError)
              ELSE LET g == [gen EXCEPT !.failedImage = @ + 1,
                                        !.imageAlt = Some(alternative),
                                        !.image = alternative,
                                        !.calls = Bump(@, "altImage")]
                   IN IF isRecentImageDuplicate(alternative, gen.exposures)
                      THEN ImageStage(g)
                      ELSE [g EXCEPT !.pc = "imageAltResolve"]
  /\ UNCHANGED <<envVars, storeVars, today, es>>

\* the image loop body up to the alternative; a duplicate alternative skips
\* resolution (lines 699-718)
G_ImageAlt ==
  /\ gen.pc = "imageAlt"
  /\ \E ok \in BOOLEAN, alternative \in llm.image :
       gen' = IF ~ok
              THEN Throw([gen EXCEPT !.failedImage = @ + 1,
                                     !.calls = Bump(@, "altImage")],
                         "altImage", GenerationError)
              ELSE LET g == [gen EXCEPT !.failedImage = @ + 1,
                                        !.imageAlt = Some(alternative),
                                        !.image = alternative,
                                        !.calls = Bump(@, "altImage")]
                   IN IF isRecentImageDuplicate(alternative, gen.exposures)
                      THEN ImageStage([g EXCEPT !.imageLink = None])
                      ELSE [g EXCEPT !.pc = "imageAltResolve"]
  /\ UNCHANGED <<envVars, storeVars, today, es>>

\* resolveImageLink for the alternative, and the loop test (lines 720-725)
G_ImageAltResolve ==
  /\ gen.pc = "imageAltResolve"
  /\ \E answer \in {resolveImageLink(TheOf(gen.imageAlt), outcome) : outcome \in llm.links} :
       LET g == [gen EXCEPT !.calls = Bump(@, "resolveImage")]
       IN gen' = IF answer.raised
                 THEN Throw(g, "resolveImage", ResolverError)
                 ELSE ImageStage([g EXCEPT !.imageLink = answer.value])
  /\ UNCHANGED <<envVars, storeVars, today, es>>

\* a faulty variant of the text loop body: the rejected text is not pushed to
\* failedTextSelections
G_TextAlt_notPushed ==
  /\ gen.pc = "textAlt"
  /\ \E ok \in BOOLEAN, alternative \in llm.text :
       gen' = IF ok
              THEN TextStage([gen EXCEPT !.textAlt = Some(alternative),
                                         !.text = alternative,
                                         !.calls = Bump(@, "altText")],
                             alternative, gen.failedText)
              ELSE Throw([gen EXCEPT !.calls = Bump(@, "altText")],
                         "altText", GenerationError)
  /\ UNCHANGED <<envVars, storeVars, today, es>>

\* step 6: the text loop body (lines 750-760)
G_TextAlt ==
  /\ gen.pc = "textAlt"
  /\ \E ok \in BOOLEAN, alternative \in llm.text :
       gen' = IF ok
              THEN TextStage([gen EXCEPT !.failedText = @ + 1,
                                         !.textAlt = Some(alternative),
                                         !.text = alternative,
                                         !.calls = Bump(@, "altText")],
                             alternative, gen.failedText + 1)
              ELSE Throw([gen EXCEPT !.failedText = @ + 1,
                                     !.calls = Bump(@, "altText")],
                         "altText", GenerationError)
  /\ UNCHANGED <<envVars, storeVars, today, es>>

\* step 7: the framing call (lines 768-771)
G_Framing ==
  /\ gen.pc = "framing"
  /\ \E ok \in BOOLEAN :
       LET prompt == buildFramingPrompt(TheOf(gen.arc), gen.dayInArc, gen.music,
                                        gen.image, gen.text, gen.insights)
       IN gen' = IF ok
                 THEN [gen EXCEPT !.pc = "persist",
                                  !.framingPrompt = Some(prompt),
                                  !.framing = Some(FramingAnswer(prompt)),
                                  !.calls = Bump(@, "framing")]
                 ELSE Throw([gen EXCEPT !.framingPrompt = Some(prompt),
                                        !.calls = Bump(@, "framing")],
                            "framing", GenerationError)
  /\ UNCHANGED <<envVars, storeVars, today, es>>

\* a faulty variant of step 8: the bundle is created only when the date has
\* none, and the call fails otherwise
G_Persist_ifAbsent ==
  /\ gen.pc = "persist"
  /\ LET bundle == BuildBundle(gen, now)
     IN IF bundle.id \in DOMAIN bundles
        THEN /\ gen' = Throw(gen, "createBundle", GenerationError)
             /\ UNCHANGED bundles
        ELSE /\ bundles' = [d \in DOMAIN bundles \cup {bundle.id} |->
                              IF d = bundle.id THEN bundle ELSE bundles[d]]
             /\ gen' = [gen EXCEPT !.pc = "done", !.bundle = Some(bundle),
                                   !.calls = Bump(@, "createBundle")]
  /\ UNCHANGED <<envVars, arcs, exposures, conversations, insights, today, es>>

\* step 8: createBundle, and the return of the bundle (lines 774-809)
G_Persist ==
  /\ gen.pc = "persist"
  /\ LET bundle == BuildBundle(gen, now)
         written == GenerateExposures(bundle)
     IN /\ bundles' = [d \in DOMAIN bundles \cup {bundle.id} |->
                         IF d = bundle.id THEN bundle ELSE bundles[d]]
        /\ exposures' = exposures \cup written
        /\ gen' = [gen EXCEPT !.pc = "done", !.bundle = Some(bundle),
                              !.calls = [Bump(@, "createBundle") EXCEPT
                                           !["createExposure"] =
                                             @ + Cardinality(written)]]
  /\ UNCHANGED <<envVars, arcs, conversations, insights, today, es>>

(***************************************************************************)
(* api/today.ts: handleGetToday.                                            *)
(***************************************************************************)
\* the locals of an extractAndEndSession invocation that has not started
EsCallKinds == {"createArc", "completeArc", "createSessionInsights", "markEnded"}

EsIdle ==
  [pc |-> "idle", bundleId |-> 0, conversation |-> None, arc |-> None,
   dayInArc |-> 0, reading |-> None, alreadyEnded |-> FALSE, error |-> None,
   calls |-> [k \in EsCallKinds |-> 0]]

\* the locals of a handleGetToday request that has not started
\* promptDay is not a local of the handler: it keeps the dayInArc that the
\* prompts of the bundle generated inside the request stated
TodayIdle ==
  [pc |-> "idle", date |-> 0, arc |-> None, bundle |-> None,
   conversation |-> None, caught |-> None, response |-> None,
   promptDay |-> None]

\* no second request: the locals of a request that has not started
ParkedIdle == [today |-> TodayIdle, gen |-> GenIdle, es |-> EsIdle]

\* a faulty variant of the catch block: the failure is answered as a success
ErrorResponse_ok(message) == [status |-> 200, error |-> message]

\* the catch block's answer (lines 66-69)
ErrorResponse(message) == [status |-> 500, error |-> message]

\* what the client may send as ?date=
DateParams == {"missing", "malformed", "valid"}

\* the request arrives: the date parameter is checked (lines 29-34)
T_Request ==
  /\ today.pc \in {"idle", "responded"}
  /\ gen.pc \in {"idle", "done", "failed"}
  /\ es.pc \in {"idle", "done", "failed"}
  /\ \E dateParam \in DateParams :
       today' =
         CASE dateParam = "missing" ->
                [TodayIdle EXCEPT
                   !.pc = "responded",
                   !.response = Some([status |-> 400,
                                      error |-> "Date parameter is required"])]
           [] dateParam = "malformed" ->
                [TodayIdle EXCEPT
                   !.pc = "responded",
                   !.response = Some([status |-> 500,
                                      error |-> "Invalid date format"])]
           [] OTHER -> [TodayIdle EXCEPT !.pc = "getActiveArc", !.date = now]
  /\ gen' = GenIdle
  /\ es' = EsIdle
  /\ UNCHANGED <<envVars, storeVars>>

\* getActiveArc (lines 37-38)
T_GetActiveArc ==
  /\ today.pc = "getActiveArc"
  /\ today' = IF IsSome(getActiveArc)
              THEN [today EXCEPT !.pc = "getBundle", !.arc = getActiveArc]
              ELSE [today EXCEPT !.pc = "createWelcomeArc"]
  /\ UNCHANGED <<envVars, storeVars, gen, es>>

\* createWelcomeArc for a user without an active arc (lines 39-40)
T_CreateWelcomeArc ==
  /\ today.pc = "createWelcomeArc"
  /\ LET arc == NewArc("Beginnings", now)
     IN /\ arcs' = Append(arcs, arc)
        /\ today' = [today EXCEPT !.pc = "getBundle", !.arc = Some(arc)]
  /\ UNCHANGED <<envVars, bundles, exposures, conversations, insights, gen, es>>

\* no call of generateDailyBundle has been made
NoRuns == {}

\* a faulty variant of the existence check: the bundle is generated anew for
\* every request
T_GetBundle_always ==
  /\ today.pc = "getBundle"
  /\ today' = [today EXCEPT !.pc = "generating"]
  /\ gen' = [GenIdle EXCEPT !.pc = "getActiveArc", !.via = "today",
                            !.bundleId = today.date]
  /\ runs' = runs \cup {today.date}
  /\ UNCHANGED <<now, dayAdvances, llm, calc, parked, storeVars, es>>

\* getBundle, and the call of generateDailyBundle when there is none
\* (lines 47-49)
T_GetBundle ==
  /\ today.pc = "getBundle"
  /\ IF today.date \in DOMAIN bundles
     THEN /\ today' = [today EXCEPT !.pc = "getConversation",
                                    !.bundle = Some(bundles[today.date])]
          /\ UNCHANGED <<gen, runs>>
     ELSE /\ today' = [today EXCEPT !.pc = "generating"]
          /\ gen' = [GenIdle EXCEPT !.pc = "getActiveArc", !.via = "today",
                                    !.bundleId = today.date]
          /\ runs' = runs \cup {today.date}
  /\ UNCHANGED <<now, dayAdvances, llm, calc, parked, storeVars, es>>

\* generateDailyBundle returned the bundle (line 49); its locals are gone
T_Generated ==
  /\ today.pc = "generating"
  /\ gen.pc = "done"
  /\ today' = [today EXCEPT !.pc = "getConversation", !.bundle = gen.bundle,
                            !.promptDay =
                              Some(TheOf(gen.framingPrompt).dayInArc)]
  /\ gen' = GenIdle
  /\ UNCHANGED <<envVars, storeVars, es>>

\* generateDailyBundle threw: the catch block answers 500 (lines 66-69)
T_GenerateFailed ==
  /\ today.pc = "generating"
  /\ gen.pc = "failed"
  /\ today' = [today EXCEPT !.pc = "responded",
                            !.caught = gen.error,
                            !.response = Some(ErrorResponse(TheOf(gen.error)))]
  /\ gen' = GenIdle
  /\ UNCHANGED <<envVars, storeVars, es>>

\* getConversation (line 53)
T_GetConversation ==
  /\ today.pc = "getConversation"
  /\ today' = [today EXCEPT
                 !.pc = "calcDay",
                 !.conversation = IF today.date \in DOMAIN conversations
                                  THEN Some(conversations[today.date]) ELSE None]
  /\ UNCHANGED <<envVars, storeVars, gen, es>>

\* calculateDayInArc and the response (lines 55-65)
T_Respond ==
  /\ today.pc = "calcDay"
  /\ today' = [today EXCEPT
                 !.pc = "responded",
                 !.response = Some([status |-> 200,
                                    bundle |-> TheOf(today.bundle),
                                    arc |-> TheOf(today.arc),
                                    dayInArc |-> calculateDayInArc(TheOf(today.arc))])]
  /\ UNCHANGED <<envVars, storeVars, gen, es>>

(***************************************************************************)
(* The stores of a user who has used the program before: the welcome arc    *)
(* and k bundles of it on the days 1-k .. 0, each delivered and its session *)
(* ended.  The exposure documents are those the delivery of a bundle        *)
(* writes.                                                                  *)
(***************************************************************************)
\* the bundle of an earlier day d
EarlierBundle(d) ==
  [id |-> d, date |-> d, arcId |-> 1, status |-> "delivered",
   music |-> [title |-> MusicFratres.title, artist |-> MusicFratres.artist,
              composer |-> MusicFratres.composer,
              appleMusicUrl |-> UrlFor("a", MusicFratres.title, MusicFratres.artist)],
   image |-> [title |-> ImageNight.title, artist |-> ImageNight.artist,
              sourceUrl |-> UrlFor("w", ImageNight.title, ImageNight.artist),
              imageUrl |-> UrlFor("i", ImageNight.title, ImageNight.artist)],
   text |-> [content |-> TextRilke.content, source |-> TextRilke.source,
             author |-> TextRilke.author],
   framingText |-> [music |-> [title |-> MusicFratres.title,
                               artist |-> MusicFratres.artist],
                    image |-> ImageNight,
                    text |-> TextRilke],
   suggestedReading |-> None]

\* the phase the generation of bundle number k left in the arc document
PhaseAfter(k) ==
  IF k = 0 THEN "early"
  ELSE determinePhase(Max(1, k - 1) + 1, TARGET_DURATION_DAYS)

\* the stores after k earlier days
HistoryInit(k) ==
  /\ arcs = IF k = 0 THEN <<>>
            ELSE <<[id |-> 1, theme |-> "Beginnings", startDate |-> 1 - k,
                    targetDurationDays |-> TARGET_DURATION_DAYS,
                    currentPhase |-> PhaseAfter(k),
                    completedDate |-> None]>>
  /\ bundles = [d \in (1 - k)..0 |-> EarlierBundle(d)]
  /\ exposures = UNION {ExposuresOf(EarlierBundle(d), d) : d \in (1 - k)..0}
  /\ conversations = [d \in (1 - k)..0 |-> [messages |-> 2, sessionEnded |-> TRUE]]
  /\ insights = [d \in (1 - k)..0 |-> [id |-> d, date |-> d, arcId |-> 1]]

(***************************************************************************)
(* api/message.ts and conversationManager.ts: one message of the user is    *)
(* handled.  The handler reads the stores once and writes what it derived   *)
(* from that read; it is taken in one step.                                 *)
(***************************************************************************)
\* the first message of the user delivers the bundle: its status becomes
\* 'delivered' and its three exposure documents are written
Delivered(bs, d) ==
  [bs EXCEPT ![d] = [@ EXCEPT !.status = "delivered"]]

DeliveryExposures(bundle, dateShown) ==
  IF bundle.status = "draft" THEN ExposuresOf(bundle, dateShown) ELSE {}

\* the conversation document handleMessage creates when there is none
NewConversation == [messages |-> 0, sessionEnded |-> FALSE]

MessageOutcomes == {"incomplete", "chatFailed", "replied"}

\* handlePostMessage for today's bundle
PostMessage ==
  /\ today.pc \in {"idle", "responded"}
  /\ gen.pc \in {"idle", "done", "failed"}
  /\ es.pc \in {"idle", "done", "failed"}
  /\ now \in DOMAIN bundles
  /\ IsSome(getActiveArc)
  /\ \E outcome \in MessageOutcomes :
       LET conversation == IF now \in DOMAIN conversations
                           THEN conversations[now] ELSE NewConversation
           after == IF outcome = "replied"
                    THEN [conversation EXCEPT !.messages = @ + 2]
                    ELSE conversation
       IN /\ conversation.messages < 2 * MaxMessages
          /\ conversations' = [d \in DOMAIN conversations \cup {now} |->
                                 IF d = now THEN after ELSE conversations[d]]
          /\ bundles' = Delivered(bundles, now)
          /\ exposures' = exposures \cup DeliveryExposures(bundles[now], now)
  /\ UNCHANGED <<envVars, arcs, insights, gen, today, es>>

(***************************************************************************)
(* insightExtractor.ts: extractAndEndSession, called by handleEndSession    *)
(* and by checkInactiveSessions.                                            *)
(***************************************************************************)
\* the session a caller asks to end: today's
EndSessionDates == {now}

\* updateConversation(userId, bundleId, { sessionEnded: true })
WithSessionEnded(cs, bundleId) ==
  [cs EXCEPT ![bundleId] = [@ EXCEPT !.sessionEnded = TRUE]]

\* the caller found the bundle and calls extractAndEndSession
ES_Start ==
  /\ es.pc \in {"idle", "done", "failed"}
  /\ today.pc \in {"idle", "responded"}
  /\ gen.pc \in {"idle", "done", "failed"}
  /\ \E d \in EndSessionDates \cap DOMAIN bundles :
       es' = [EsIdle EXCEPT !.pc = "getConversation", !.bundleId = d]
  /\ gen' = GenIdle
  /\ today' = TodayIdle
  /\ UNCHANGED <<envVars, storeVars>>

\* getConversation and the two early returns (lines 146-155)
ES_GetConversation ==
  /\ es.pc = "getConversation"
  /\ es' = IF es.bundleId \notin DOMAIN conversations
           THEN [es EXCEPT !.pc = "done"]
           ELSE LET conversation == conversations[es.bundleId]
                IN IF conversation.sessionEnded
                   THEN [es EXCEPT !.pc = "done", !.alreadyEnded = TRUE,
                                   !.conversation = Some(conversation)]
                   ELSE [es EXCEPT !.conversation = Some(conversation),
                                   !.pc = IF conversation.messages > 0
                                          THEN "xiGetConversation"
                                          ELSE "markEnded"]
  /\ UNCHANGED <<envVars, storeVars, gen, today>>

\* no messages: the conversation is only marked as ended (lines 163-166)
ES_MarkEnded ==
  /\ es.pc = "markEnded"
  /\ conversations' = WithSessionEnded(conversations, es.bundleId)
  /\ es' = [es EXCEPT !.pc = "getActiveArc", !.calls = Bump(@, "markEnded")]
  /\ UNCHANGED <<envVars, arcs, bundles, exposures, insights, gen, today>>

\* extractInsights: getConversation again (lines 81-85)
XI_GetConversation ==
  /\ es.pc = "xiGetConversation"
  /\ es' = IF \/ es.bundleId \notin DOMAIN conversations
              \/ conversations[es.bundleId].messages = 0
           THEN [es EXCEPT !.pc = "getActiveArc"]
           ELSE [es EXCEPT !.pc = "xiGetActiveArc"]
  /\ UNCHANGED <<envVars, storeVars, gen, today>>

\* extractInsights: getActiveArc; without an arc it returns null (lines 87-90)
XI_GetActiveArc ==
  /\ es.pc = "xiGetActiveArc"
  /\ es' = IF IsSome(getActiveArc)
           THEN [es EXCEPT !.pc = "xiExtract", !.arc = getActiveArc]
           ELSE [es EXCEPT !.pc = "getActiveArc"]
  /\ UNCHANGED <<envVars, storeVars, gen, today>>

\* a faulty variant of the extraction call: a failed extraction marks the
\* conversation as ended
XI_Extract_endsOnFailure ==
  /\ es.pc = "xiExtract"
  /\ \E ok \in BOOLEAN, suggested \in BOOLEAN :
       /\ es' = IF ok
                THEN [es EXCEPT !.pc = "xiCreateInsights",
                                !.reading = IF suggested THEN Some("reading")
                                            ELSE None]
                ELSE [es EXCEPT !.pc = "failed", !.error = Some(GenerationError)]
       /\ conversations' = IF ok THEN conversations
                           ELSE WithSessionEnded(conversations, es.bundleId)
  /\ UNCHANGED <<envVars, arcs, bundles, exposures, insights, gen, today>>

\* extractInsights: the extraction call; it may suggest a reading (lines 93-96)
XI_Extract ==
  /\ es.pc = "xiExtract"
  /\ \E ok \in BOOLEAN, suggested \in BOOLEAN :
       es' = IF ok
             THEN [es EXCEPT !.pc = "xiCreateInsights",
                             !.reading = IF suggested THEN Some("reading")
                                         ELSE None]
             ELSE [es EXCEPT !.pc = "failed", !.error = Some(GenerationError)]
  /\ UNCHANGED <<envVars, storeVars, gen, today>>

\* extractInsights: createSessionInsights (lines 98-109)
XI_CreateInsights ==
  /\ es.pc = "xiCreateInsights"
  /\ insights' = [d \in DOMAIN insights \cup {es.bundleId} |->
                    IF d = es.bundleId
                    THEN [id |-> es.bundleId, date |-> now,
                          arcId |-> TheOf(es.arc).id]
                    ELSE insights[d]]
  /\ es' = [es EXCEPT !.pc = IF IsSome(es.reading) THEN "xiResolveReading"
                             ELSE "xiMarkEnded",
                      !.calls = Bump(@, "createSessionInsights")]
  /\ UNCHANGED <<envVars, arcs, bundles, exposures, conversations, gen, today>>

\* extractInsights: resolveReadingUrl (lines 113-116)
XI_ResolveReading ==
  /\ es.pc = "xiResolveReading"
  /\ \E resolved \in BOOLEAN :
       es' = IF resolved
             THEN [es EXCEPT !.pc = "xiUpdateReading"]
             ELSE [es EXCEPT !.pc = "xiMarkEnded", !.reading = None]
  /\ UNCHANGED <<envVars, storeVars, gen, today>>

\* extractInsights: updateBundleSuggestedReading (lines 118-126)
XI_UpdateReading ==
  /\ es.pc = "xiUpdateReading"
  /\ bundles' = [bundles EXCEPT ![es.bundleId] =
                   [@ EXCEPT !.suggestedReading = es.reading]]
  /\ es' = [es EXCEPT !.pc = "xiMarkEnded"]
  /\ UNCHANGED <<envVars, arcs, exposures, conversations, insights, gen, today>>

\* extractInsights: the conversation is marked as ended (line 135)
XI_MarkEnded ==
  /\ es.pc = "xiMarkEnded"
  /\ conversations' = WithSessionEnded(conversations, es.bundleId)
  /\ es' = [es EXCEPT !.pc = "getActiveArc", !.arc = None,
                      !.calls = Bump(@, "markEnded")]
  /\ UNCHANGED <<envVars, arcs, bundles, exposures, insights, gen, today>>

\* the last-day check: getActiveArc (lines 169-170)
ES_GetActiveArc ==
  /\ es.pc = "getActiveArc"
  /\ es' = IF IsSome(getActiveArc)
           THEN [es EXCEPT !.pc = "calcDay", !.arc = getActiveArc]
           ELSE [es EXCEPT !.pc = "done", !.arc = None]
  /\ UNCHANGED <<envVars, storeVars, gen, today>>

\* a faulty variant of the comparison: the arc is completed only after its
\* target has been passed
ES_CalcDay_strict ==
  /\ es.pc = "calcDay"
  /\ LET arc == TheOf(es.arc)
         dayInArc == calculateDayInArc(arc)
     IN es' = [es EXCEPT !.dayInArc = dayInArc,
                         !.pc = IF dayInArc > arc.targetDurationDays
                                THEN "acGetArcBundles" ELSE "done"]
  /\ UNCHANGED <<envVars, storeVars, gen, today>>

\* calculateDayInArc and the comparison with the target (lines 171-172)
ES_CalcDay ==
  /\ es.pc = "calcDay"
  /\ LET arc == TheOf(es.arc)
         dayInArc == calculateDayInArc(arc)
     IN es' = [es EXCEPT !.dayInArc = dayInArc,
                         !.pc = IF dayInArc >= arc.targetDurationDays
                                THEN "acGetArcBundles" ELSE "done"]
  /\ UNCHANGED <<envVars, storeVars, gen, today>>

\* generateArcCompletion: getArcBundles
AC_GetArcBundles ==
  /\ es.pc = "acGetArcBundles"
  /\ es' = [es EXCEPT !.pc = "acGetArcInsights"]
  /\ UNCHANGED <<envVars, storeVars, gen, today>>

\* generateArcCompletion: getArcInsights
AC_GetArcInsights ==
  /\ es.pc = "acGetArcInsights"
  /\ es' = [es EXCEPT !.pc = "acSummary"]
  /\ UNCHANGED <<envVars, storeVars, gen, today>>

\* generateArcCompletion: the retrospective summary call
AC_Summary ==
  /\ es.pc = "acSummary"
  /\ \E ok \in BOOLEAN :
       es' = IF ok THEN [es EXCEPT !.pc = "acNextArc"]
             ELSE [es EXCEPT !.pc = "failed", !.error = Some(GenerationError)]
  /\ UNCHANGED <<envVars, storeVars, gen, today>>

\* generateArcCompletion: the next-arc call
AC_NextArc ==
  /\ es.pc = "acNextArc"
  /\ \E ok \in BOOLEAN :
       es' = IF ok THEN [es EXCEPT !.pc = "acCreateArc"]
             ELSE [es EXCEPT !.pc = "failed", !.error = Some(GenerationError)]
  /\ UNCHANGED <<envVars, storeVars, gen, today>>

\* generateArcCompletion: createArc, the next arc starts tomorrow
AC_CreateArc ==
  /\ es.pc = "acCreateArc"
  /\ arcs' = Append(arcs, NewArc("next", now + 1))
  /\ es' = [es EXCEPT !.pc = "completeArc", !.calls = Bump(@, "createArc")]
  /\ UNCHANGED <<envVars, bundles, exposures, conversations, insights, gen, today>>

\* a faulty variant of the last step: the arc is left open
ES_CompleteArc_skipped ==
  /\ es.pc = "completeArc"
  /\ es' = [es EXCEPT !.pc = "done"]
  /\ UNCHANGED <<envVars, storeVars, gen, today>>

\* completeArc(userId, arc.id) and the return (lines 178-184)
ES_CompleteArc ==
  /\ es.pc = "completeArc"
  /\ arcs' = WithCompleted(arcs, TheOf(es.arc).id, now)
  /\ es' = [es EXCEPT !.pc = "done", !.calls = Bump(@, "completeArc")]
  /\ UNCHANGED <<envVars, bundles, exposures, conversations, insights, gen, today>>

(***************************************************************************)
(* api/refineArc.ts: handleRefineArcMessage.                                *)
(***************************************************************************)
\* the reply carries the marker of a new theme: the pending arc is updated
\* (without a pending arc the answer is 400, without the marker nothing is
\* written)
RA_Refine ==
  /\ today.pc \in {"idle", "responded"}
  /\ gen.pc \in {"idle", "done", "failed"}
  /\ es.pc \in {"idle", "done", "failed"}
  /\ IsSome(getPendingArc)
  /\ arcs' = WithTheme(arcs, TheOf(getPendingArc).id, "refined")
  /\ UNCHANGED <<envVars, bundles, exposures, conversations, insights,
                 gen, today, es>>

(***************************************************************************)
(* The calendar.                                                            *)
(***************************************************************************)
\* midnight passes while no request is being handled
DayAdvance ==
  /\ dayAdvances < MaxDayAdvances
  /\ gen.pc \in {"idle", "done", "failed"}
  /\ today.pc \in {"idle", "responded"}
  /\ es.pc \in {"idle", "done", "failed"}
  /\ now' = now + 1
  /\ dayAdvances' = dayAdvances + 1
  /\ gen' = GenIdle
  /\ today' = TodayIdle
  /\ es' = EsIdle
  /\ runs' = NoRuns
  /\ UNCHANGED <<llm, calc, parked, storeVars>>

(***************************************************************************)
(* SpecGen: generateDailyBundle invoked for the current day, for a user     *)
(* without arcs and for a user with two earlier bundles, on the next day    *)
(* or after the exposure window has passed.                                 *)
(***************************************************************************)
InitGen ==
  /\ \E h \in {<<0, 1>>, <<2, 1>>, <<2, EXPOSURE_WINDOW_DAYS + 1>>} :
       HistoryInit(h[1]) /\ now = h[2]
  /\ dayAdvances = 0
  /\ llm = FullService
  /\ gen = GenIdle
  /\ today = TodayIdle
  /\ es = EsIdle
  /\ calc = CalcIdle
  /\ parked = ParkedIdle
  /\ runs = NoRuns

NextGen ==
  \/ G_Invoke \/ G_GetActiveArc \/ G_CalcDay \/ G_UpdatePhase
  \/ G_GetExposures \/ G_GetInsights \/ G_Select \/ G_Coherence
  \/ G_ReplaceImage \/ G_ReplaceText \/ G_SkipMusicIssue
  \/ G_ResolveMusic \/ G_MusicAlt \/ G_MusicAltResolve
  \/ G_ResolveImage \/ G_ImageAlt \/ G_ImageAltResolve
  \/ G_TextAlt \/ G_Framing \/ G_Persist

SpecGen == InitGen /\ [][NextGen]_vars

\* the steps of a running invocation: each is the return of a call it awaits
GenProgress ==
  \/ G_GetActiveArc \/ G_CalcDay \/ G_UpdatePhase
  \/ G_GetExposures \/ G_GetInsights \/ G_Select \/ G_Coherence
  \/ G_ReplaceImage \/ G_ReplaceText \/ G_SkipMusicIssue
  \/ G_ResolveMusic \/ G_MusicAlt \/ G_MusicAltResolve
  \/ G_ResolveImage \/ G_ImageAlt \/ G_ImageAltResolve
  \/ G_TextAlt \/ G_Framing \/ G_Persist

\* SpecGen with every awaited call returning: a step of the running
\* invocation that stays possible is eventually taken
SpecGenLive == InitGen /\ [][NextGen]_vars /\ WF_vars(GenProgress)

(***************************************************************************)
(* Spec: the life of one user.  A new user, or a user whose welcome arc has *)
(* six delivered bundles, opens the app, talks, ends sessions, and comes    *)
(* back on later days.                                                      *)
(***************************************************************************)
\* the two environments of Spec: every link is found and the selection is
\* coherent or has an image issue; no link is found and the selection has a
\* music and a text issue
ServiceWithLinks ==
  [music |-> {MusicBlue}, image |-> {ImageIris}, text |-> {TextBasho},
   coherence |-> {[isCoherent |-> TRUE, issues |-> <<>>],
                  [isCoherent |-> FALSE, issues |-> <<"image">>]},
   links |-> {"found"}]
ServiceWithoutLinks ==
  [music |-> {MusicBlue}, image |-> {ImageIris}, text |-> {TextBasho},
   coherence |-> {[isCoherent |-> FALSE, issues |-> <<"music", "text">>]},
   links |-> {"notFound", "fetchError", "searchNotOk"}]

\* how many bundles the user's welcome arc has at the start
Histories == {0, 2, TARGET_DURATION_DAYS - 1}

Init ==
  /\ \E k \in Histories : HistoryInit(k)
  /\ now = 1
  /\ dayAdvances = 0
  /\ llm \in {ServiceWithLinks, ServiceWithoutLinks}
  /\ gen = GenIdle
  /\ today = TodayIdle
  /\ es = EsIdle
  /\ calc = CalcIdle
  /\ parked = ParkedIdle
  /\ runs = NoRuns

Next ==
  \/ T_Request \/ T_GetActiveArc \/ T_CreateWelcomeArc \/ T_GetBundle
  \/ T_Generated \/ T_GenerateFailed \/ T_GetConversation \/ T_Respond
  \/ G_GetActiveArc \/ G_CalcDay \/ G_UpdatePhase
  \/ G_GetExposures \/ G_GetInsights \/ G_Select \/ G_Coherence
  \/ G_ReplaceImage \/ G_ReplaceText \/ G_SkipMusicIssue
  \/ G_ResolveMusic \/ G_MusicAlt \/ G_MusicAltResolve
  \/ G_ResolveImage \/ G_ImageAlt \/ G_ImageAltResolve
  \/ G_TextAlt \/ G_Framing \/ G_Persist
  \/ PostMessage
  \/ ES_Start \/ ES_GetConversation \/ ES_MarkEnded
  \/ XI_GetConversation \/ XI_GetActiveArc \/ XI_Extract \/ XI_CreateInsights
  \/ XI_ResolveReading \/ XI_UpdateReading \/ XI_MarkEnded
  \/ ES_GetActiveArc \/ ES_CalcDay
  \/ AC_GetArcBundles \/ AC_GetArcInsights \/ AC_Summary \/ AC_NextArc
  \/ AC_CreateArc \/ ES_CompleteArc
  \/ RA_Refine
  \/ DayAdvance

Spec == Init /\ [][Next]_vars

(***************************************************************************)
(* Properties of generateDailyBundle, checked under SpecGen.                *)
(***************************************************************************)
\* what a bundle, a prompt or a candidate says of an artifact
MusicOf(m) == [title |-> m.title, artist |-> m.artist]
ImageOf(i) == [title |-> i.title, artist |-> i.artist]
TextOf(t) == [content |-> t.content, source |-> t.source, author |-> t.author]

\* C1: once the framing call has been issued, none of the three retry loops
\* would run again, the artifacts stated in the framing prompt are the
\* pipeline's current music, image and text, and the bundle that is persisted
\* holds exactly those artifacts and the framing text written for them.
C1_FramingAfterLoops ==
  gen.calls["framing"] > 0 =>
    /\ gen.pc \in {"persist", "done", "failed"}
    /\ ~MusicLoopContinues(gen.musicLink, gen.failedMusic)
    /\ ~ImageLoopContinues(gen.imageLink, gen.image, gen.failedImage,
                           gen.exposures)
    /\ ~TextLoopContinues(gen.text, gen.failedText, gen.exposures)
    /\ LET prompt == TheOf(gen.framingPrompt)
       IN /\ prompt.music = MusicOf(gen.music)
          /\ prompt.image = ImageOf(gen.image)
          /\ prompt.text = TextOf(gen.text)
          /\ gen.pc = "done" =>
               LET stored == bundles[gen.bundleId]
               IN /\ MusicOf(stored.music) = prompt.music
                  /\ ImageOf(stored.image) = prompt.image
                  /\ TextOf(stored.text) = prompt.text
                  /\ stored.framingText = FramingAnswer(prompt).framingText

\* C1 happens: a bundle was persisted after an image replacement and after
\* alternatives in all three loops
C1_Witness ==
  /\ gen.pc = "done"
  /\ gen.calls["replaceImage"] > 0
  /\ gen.failedMusic > 0 /\ gen.failedImage > 0 /\ gen.failedText > 0

\* the initial proposal and MAX_MUSIC_RETRIES alternatives were all looked up
\* and none has a link
MusicExhausted ==
  /\ gen.calls["resolveMusic"] = MAX_MUSIC_RETRIES + 1
  /\ ~IsSome(gen.musicLink)

\* C5: no more than five music alternatives are ever requested; when the
\* initial proposal and five alternatives all failed to resolve, the pipeline
\* is in or past the image stage, has failed only if a later generation call
\* failed, and a persisted bundle carries the last alternative's title and
\* artist with an empty appleMusicUrl.
C5_MusicExhaustion ==
  /\ gen.calls["altMusic"] <= MAX_MUSIC_RETRIES
  /\ MusicExhausted =>
       /\ gen.calls["altMusic"] = MAX_MUSIC_RETRIES
       /\ gen.pc \in {"resolveImage", "imageAlt", "imageAltResolve", "textAlt",
                      "framing", "persist", "done", "failed"}
       /\ gen.pc = "failed" => gen.threw \in {"altImage", "altText", "framing"}
       /\ gen.pc = "done" =>
            LET stored == bundles[gen.bundleId]
            IN /\ MusicOf(stored.music) = MusicOf(TheOf(gen.musicAlt))
               /\ stored.music.appleMusicUrl = <<>>

\* C5 happens: a bundle was persisted after the music loop was exhausted
C5_Witness == MusicExhausted /\ gen.pc = "done"

\* C6: while fewer than three image alternatives have been requested, a
\* looked-up image whose normalized "title - artist" equals that of a recent
\* image exposure is not accepted: the pipeline is about to request an
\* alternative (or that request failed), and it has not gone on to the text
\* loop, the framing call or the bundle.
C6_DuplicateImageRetried ==
  (/\ gen.calls["resolveImage"] > 0
   /\ gen.failedImage < MAX_IMAGE_RETRIES
   /\ isRecentImageDuplicate(gen.image, gen.exposures)) =>
    /\ gen.pc \in {"imageAlt", "failed"}
    /\ gen.pc = "failed" => gen.threw = "altImage"
    /\ gen.calls["altText"] = 0
    /\ gen.calls["framing"] = 0
    /\ ~IsSome(gen.bundle)

\* C6 happens: the resolver returned a link for a recent duplicate
C6_Witness ==
  /\ gen.pc = "imageAlt"
  /\ IsSome(gen.imageLink)
  /\ gen.failedImage < MAX_IMAGE_RETRIES
  /\ isRecentImageDuplicate(gen.image, gen.exposures)

\* three image alternatives were requested and the last one is without a
\* link or a recent duplicate
ImageExhausted ==
  /\ gen.calls["altImage"] = MAX_IMAGE_RETRIES
  /\ gen.threw # "altImage"
  /\ gen.pc # "imageAltResolve"
  /\ ~IsSome(gen.imageLink) \/ isRecentImageDuplicate(gen.image, gen.exposures)

\* three text alternatives were requested and the last author is recent
TextExhausted ==
  /\ gen.calls["altText"] = MAX_TEXT_RETRIES
  /\ gen.threw # "altText"
  /\ isRecentTextAuthor(gen.text, gen.exposures)

\* C7: when the image loop or the text loop is exhausted, the pipeline keeps
\* the last candidate and goes on; it has failed only if a later generation
\* call failed, and a persisted bundle holds that last candidate, with empty
\* image URLs when no link was resolved for it.
C7_ExhaustionPersists ==
  /\ ImageExhausted =>
       /\ gen.image = TheOf(gen.imageAlt)
       /\ gen.pc \in {"textAlt", "framing", "persist", "done", "failed"}
       /\ gen.pc = "failed" => gen.threw \in {"altText", "framing"}
       /\ gen.pc = "done" =>
            LET stored == bundles[gen.bundleId]
            IN /\ ImageOf(stored.image) = ImageOf(TheOf(gen.imageAlt))
               /\ ~IsSome(gen.imageLink) =>
                    stored.image.sourceUrl = <<>> /\ stored.image.imageUrl = <<>>
  /\ TextExhausted =>
       /\ gen.text = TheOf(gen.textAlt)
       /\ gen.pc \in {"framing", "persist", "done", "failed"}
       /\ gen.pc = "failed" => gen.threw = "framing"
       /\ gen.pc = "done" =>
            TextOf(bundles[gen.bundleId].text) = TextOf(TheOf(gen.textAlt))

\* C7 happens: a bundle was persisted after both loops were exhausted, the
\* image without a link
C7_Witness ==
  /\ gen.pc = "done"
  /\ ImageExhausted /\ ~IsSome(gen.imageLink)
  /\ TextExhausted

C10_NoActiveArcFailsFirst ==
  (gen.pc \notin {"idle", "getActiveArc"} /\ ~IsSome(getActiveArc)) =>
    /\ gen.pc = "failed"
    /\ gen.error = Some(NoActiveArcError)
    /\ gen.threw = "getActiveArc"
    /\ \A k \in GenerationCalls \cup ResolverCalls \cup StoreWriteCalls :
         gen.calls[k] = 0
    /\ gen.bundleId \notin DOMAIN bundles

\* C10 happens: the invocation for a user without arcs has failed
C10_Witness ==
  /\ arcs = <<>>
  /\ gen.pc = "failed"
  /\ gen.error = Some(NoActiveArcError)

(***************************************************************************)
(* Properties of the user's stores, checked under Spec.                     *)
(***************************************************************************)
\* the arcs without completedDate
OpenArcs == {a \in ArcDocs : ~IsSome(a.completedDate)}

\* C2 as stated: at most one arc lacks completedDate, in every state.
C2_AtMostOneOpenArc == Cardinality(OpenArcs) <= 1

C4_FailedGenerationPersistsNothing ==
  /\ (gen.pc = "failed" /\ gen.threw \in GenerationCalls) =>
       /\ gen.calls["createBundle"] = 0
       /\ ~IsSome(gen.bundle)
       /\ gen.bundleId \notin DOMAIN bundles
  /\ (today.pc = "responded" /\ IsSome(today.caught)) =>
       LET response == TheOf(today.response)
       IN /\ response.status = 500
          /\ "bundle" \notin DOMAIN response
          /\ response.error = TheOf(today.caught)
          /\ today.date \notin DOMAIN bundles

\* C4 happens: handleGetToday answered after the framing call had failed
C4_Witness ==
  /\ today.pc = "responded"
  /\ today.caught = Some(GenerationError)
  /\ today.date \notin DOMAIN bundles

AfterCalcDay ==
  {"updatePhase", "getExposures", "getInsights", "select", "coherence",
   "replace", "resolveMusic", "musicAlt", "musicAltResolve", "resolveImage",
   "imageAlt", "imageAltResolve", "textAlt", "framing", "persist"}

\* C11 as stated: the dayInArc generateDailyBundle uses is the number of
\* bundles persisted for the arc plus one (1 for the first bundle of an arc).
C11_DayInArcIsCountPlusOne ==
  gen.pc \in AfterCalcDay =>
    gen.dayInArc = BundleCount(TheOf(gen.arc).id) + 1

(***************************************************************************)
(* linkValidator: resolveAppleMusicLink, one search of the catalog per     *)
(* step.                                                                    *)
(***************************************************************************)
MaxResults == 2        \* the longest result list a catalog search returns

\* the characters [a-z0-9]
AlnumChars ==
  {"a", "b", "c", "d", "e", "f", "g", "h", "i", "j", "k", "l", "m", "n", "o",
   "p", "q", "r", "s", "t", "u", "v", "w", "x", "y", "z",
   "0", "1", "2", "3", "4", "5", "6", "7", "8", "9"}

\* str.normalize('NFD'): a precomposed letter becomes the letter and its
\* combining mark (U+00E4 is a with diaeresis, U+0308 the combining diaeresis)
RECURSIVE NFD(_)
NFD(s) ==
  IF s = <<>> THEN <<>>
  ELSE (IF Head(s) = "U+00E4" THEN <<"a", "U+0308">> ELSE <<Head(s)>>)
         \o NFD(Tail(s))

\* the characters [\u0300-\u036f], of those the model uses
IsCombiningMark(c) == c \in {"U+0308"}
NotCombiningMark(c) == ~IsCombiningMark(c)

\* the characters /[^a-z0-9\s]/g leaves in place
IsAlnumOrSpace(c) == c \in AlnumChars \/ IsWhitespace(c)

\* normalizeString
normalizeString(str) ==
  Trim(CollapseWhitespace(
         SelectSeq(SelectSeq(NFD(LowerAll(str)), NotCombiningMark),
                   IsAlnumOrSpace)))

\* a.includes(b)
includes(a, b) ==
  \E i \in 1..(Len(a) - Len(b) + 1) : SubSeq(a, i, i + Len(b) - 1) = b

\* stringsMatch: one normalized string contains the other
stringsMatch(a, b) ==
  LET normA == normalizeString(a)
      normB == normalizeString(b)
  IN includes(normA, normB) \/ includes(normB, normA)

\* s.split(' ')
RECURSIVE split(_)
split(s) ==
  IF \A i \in 1..Len(s) : s[i] # " " THEN <<s>>
  ELSE LET i == CHOOSE k \in 1..Len(s) :
                  s[k] = " " /\ \A j \in 1..(k - 1) : s[j] # " "
       IN <<SubSeq(s, 1, i - 1)>> \o split(SubSeq(s, i + 1, Len(s)))

\* words.join(' ')
RECURSIVE join(_)
join(words) ==
  IF words = <<>> THEN <<>>
  ELSE IF Len(words) = 1 THEN words[1]
  ELSE words[1] \o <<" ">> \o join(Tail(words))

LongerThanOne(w) == Len(w) > 1

\* titleKeywords = normalizeString(title).split(' ').filter(w => w.length > 1)
titleKeywords(title) == SelectSeq(split(normalizeString(title)), LongerThanOne)

\* the template `${a} ${b}`
Spaced(a, b) == a \o <<" ">> \o b

\* searches.filter((q, i, arr) => q && arr.indexOf(q) === i)
RECURSIVE FirstOccurrences(_, _)
FirstOccurrences(qs, i) ==
  IF i > Len(qs) THEN <<>>
  ELSE (IF qs[i] # <<>> /\ \A j \in 1..(i - 1) : qs[j] # qs[i]
        THEN <<qs[i]>> ELSE <<>>) \o FirstOccurrences(qs, i + 1)

\* isClassical && composer
ClassicalSearch(sel) == sel.isClassical /\ sel.composer # <<>>

\* the search terms, in the order they are tried
searches(sel) ==
  LET firstThree == join(SubSeq(titleKeywords(sel.title), 1,
                                IF Len(titleKeywords(sel.title)) < 3
                                THEN Len(titleKeywords(sel.title)) ELSE 3))
  IN FirstOccurrences(
       IF ClassicalSearch(sel)
       THEN <<Spaced(sel.composer, sel.title), Spaced(sel.title, sel.composer),
              sel.searchQuery, sel.title>>
            \o (IF sel.performer # <<>>
                THEN <<Spaced(sel.performer, sel.title),
                       Spaced(sel.performer, sel.composer)>>
                ELSE <<>>)
            \o <<Spaced(sel.composer, firstThree)>>
       ELSE <<Spaced(sel.title, sel.artist), sel.searchQuery,
              Spaced(sel.artist, sel.title), sel.title,
              Spaced(sel.artist, firstThree)>>,
       1)

\* the artist test of both loops: composer, performer or listed artist for a
\* classical search, the listed artist otherwise
ArtistAccepted(sel, result) ==
  IF ClassicalSearch(sel)
  THEN \/ stringsMatch(result.artistName, sel.composer)
       \/ sel.performer # <<>> /\ stringsMatch(result.artistName, sel.performer)
       \/ stringsMatch(result.artistName, sel.artist)
  ELSE stringsMatch(result.artistName, sel.artist)

\* the first loop over the results: the track name matches the title
TitleMatch(sel, result) ==
  stringsMatch(result.trackName, sel.title) /\ ArtistAccepted(sel, result)

\* the second loop: at least two title keywords (all of them when there are
\* fewer than two) occur in the track name
KeywordMatch(sel, result) ==
  LET kws == titleKeywords(sel.title)
      trackNorm == normalizeString(result.trackName)
      keywordMatches == {k \in 1..Len(kws) : includes(trackNorm, kws[k])}
  IN /\ Cardinality(keywordMatches) >= (IF Len(kws) < 2 THEN Len(kws) ELSE 2)
     /\ ArtistAccepted(sel, result)

\* what one response leads to: the first result of the first loop, else the
\* first result of the second loop, else nothing (the next search is tried)
SearchResult(sel, results) ==
  LET exact == {i \in 1..Len(results) : TitleMatch(sel, results[i])}
      partial == {i \in 1..Len(results) : KeywordMatch(sel, results[i])}
      first(S) == CHOOSE i \in S : \A j \in S : i <= j
  IN IF exact # {} THEN Some(results[first(exact)])
     ELSE IF partial # {} THEN Some(results[first(partial)])
     ELSE None

\* proposals of the generation service (MusicSelection)
SuiteProposal ==
  [title |-> <<"S", "u", "i", "t", "e", " ", "N", "o", ".", " ", "1">>,
   artist |-> <<"Y", "o", "-", "Y", "o", " ", "M", "a">>,
   searchQuery |-> <<"B", "a", "c", "h", " ", "S", "u", "i", "t", "e", " ", "1">>,
   composer |-> <<"B", "a", "c", "h">>,
   performer |-> <<"Y", "o", "-", "Y", "o", " ", "M", "a">>,
   isClassical |-> TRUE]
FratresProposal ==
  [title |-> <<"F", "r", "a", "t", "r", "e", "s">>,
   artist |-> <<"T", "a", "s", "m", "i", "n", " ", "L", "i", "t", "t", "l", "e">>,
   searchQuery |-> <<"F", "r", "a", "t", "r", "e", "s">>,
   composer |-> <<"A", "r", "v", "o", " ", "P", "U+00E4", "r", "t">>,
   performer |-> <<>>,
   isClassical |-> TRUE]
BlueProposal ==
  [title |-> <<"B", "l", "u", "e">>,
   artist |-> <<"M", "i", "l", "e", "s">>,
   searchQuery |-> <<"B", "l", "u", "e", " ", "M", "i", "l", "e", "s">>,
   composer |-> <<>>,
   performer |-> <<>>,
   isClassical |-> FALSE]
MusicProposals == {SuiteProposal, FratresProposal, BlueProposal}

\* entries of the catalog (iTunesSearchResult)
SuiteOneInG ==
  [trackName |-> <<"S", "u", "i", "t", "e", " ", "N", "o", ".", " ", "1", " ", "i", "n", " ", "G">>,
   artistName |-> <<"J", ".", "S", ".", " ", "B", "a", "c", "h">>,
   trackViewUrl |-> <<"u", "1">>]
SuiteThree ==
  [trackName |-> <<"S", "u", "i", "t", "e", " ", "N", "o", ".", " ", "3">>,
   artistName |-> <<"Y", "o", "-", "Y", "o", " ", "M", "a">>,
   trackViewUrl |-> <<"u", "2">>]
AirByBach ==
  [trackName |-> <<"A", "i", "r">>,
   artistName |-> <<"B", "a", "c", "h">>,
   trackViewUrl |-> <<"u", "3">>]
FratresByPart ==
  [trackName |-> <<"F", "r", "a", "t", "r", "e", "s">>,
   artistName |-> <<"A", "r", "v", "o", " ", "P", "a", "r", "t">>,
   trackViewUrl |-> <<"u", "4">>]
SunByLittle ==
  [trackName |-> <<"H", "e", "r", "e", " ", "C", "o", "m", "e", "s", " ", "t", "h", "e", " ", "S", "u", "n">>,
   artistName |-> <<"T", "a", "s", "m", "i", "n", " ", "L", "i", "t", "t", "l", "e">>,
   trackViewUrl |-> <<"u", "5">>]
BlueInGreen ==
  [trackName |-> <<"B", "l", "u", "e", " ", "i", "n", " ", "G", "r", "e", "e", "n">>,
   artistName |-> <<"M", "i", "l", "e", "s", " ", "D", "a", "v", "i", "s">>,
   trackViewUrl |-> <<"u", "6">>]
Catalog ==
  {SuiteOneInG, SuiteThree, AirByBach, FratresByPart, SunByLittle, BlueInGreen}

\* data.results of one response
ResultLists == SeqsUpTo(Catalog, MaxResults)

\* resolveAppleMusicLink is called with a proposal
P_ResolveStart ==
  /\ calc = CalcIdle
  /\ \E sel \in MusicProposals :
       calc' = [op |-> "resolveAppleMusicLink", sel |-> sel,
                searches |-> searches(sel), query |-> 1,
                pc |-> "searching", returned |-> None]
  /\ UNCHANGED <<now, dayAdvances, llm, storeVars, gen, today, es, parked, runs>>

\* one pass of the loop over the searches: the fetch throws (the function
\* returns null), the response is not ok (the next search is tried), or the
\* results are looked through
P_Search ==
  /\ calc.op = "resolveAppleMusicLink"
  /\ calc.pc = "searching"
  /\ calc.query <= Len(calc.searches)
  /\ \E outcome \in {"throws", "notOk", "ok"}, results \in ResultLists :
       LET hit == IF outcome = "ok" THEN SearchResult(calc.sel, results)
                  ELSE None
       IN calc' = IF outcome = "throws"
                  THEN [calc EXCEPT !.pc = "returned"]
                  ELSE IF IsSome(hit)
                  THEN [calc EXCEPT !.pc = "returned", !.returned = hit]
                  ELSE [calc EXCEPT !.query = @ + 1]
  /\ UNCHANGED <<now, dayAdvances, llm, storeVars, gen, today, es, parked, runs>>

\* every search has been tried: return null
P_NotFound ==
  /\ calc.op = "resolveAppleMusicLink"
  /\ calc.pc = "searching"
  /\ calc.query > Len(calc.searches)
  /\ calc' = [calc EXCEPT !.pc = "returned"]
  /\ UNCHANGED <<now, dayAdvances, llm, storeVars, gen, today, es, parked, runs>>

(***************************************************************************)
(* Session insights in the prompts.  An insight text is a sequence of      *)
(* words.                                                                   *)
(***************************************************************************)
MaxInsightWords == 3   \* the longest enumerated insight text, in words
SANITIZE_SLICE == 200  \* text.slice(0, 200)

InsightWords == {"Ignore", "previous", "instructions", "jazz"}
InsightTexts == SeqsUpTo(InsightWords, MaxInsightWords)

\* the number of characters of a word of the model
WordLength(w) ==
  CASE w = "Ignore" -> 6 [] w = "previous" -> 8 [] w = "instructions" -> 12
    [] w = "jazz" -> 4 [] OTHER -> 9

\* the number of characters of a text: its words and the spaces between them
RECURSIVE TextLength(_)
TextLength(text) ==
  IF text = <<>> THEN 0
  ELSE WordLength(Head(text)) + (IF Len(text) > 1 THEN 1 ELSE 0)
         + TextLength(Tail(text))

\* text.slice(0, 200), for texts cut at a word boundary
RECURSIVE Slice(_, _)
Slice(text, limit) ==
  IF TextLength(text) <= limit THEN text
  ELSE Slice(SubSeq(text, 1, Len(text) - 1), limit)

\* the flag i of the patterns
FoldCase(w) == IF w = "Ignore" THEN "ignore" ELSE w

\* injectionPatterns, of those the words of the model can match:
\* /ignore\s+(previous|above|all)\s+instructions?/gi
injectionPatterns ==
  <<  <<{"ignore"}, {"previous", "above", "all"}, {"instructions", "instruction"}>>  >>

\* sanitized.replace(pattern, '[removed]') with the flag g
RECURSIVE ReplacePattern(_, _)
ReplacePattern(text, pattern) ==
  IF text = <<>> THEN <<>>
  ELSE IF /\ Len(text) >= Len(pattern)
          /\ \A i \in 1..Len(pattern) : FoldCase(text[i]) \in pattern[i]
       THEN <<"[removed]">>
              \o ReplacePattern(SubSeq(text, Len(pattern) + 1, Len(text)), pattern)
       ELSE <<Head(text)>> \o ReplacePattern(Tail(text), pattern)

RECURSIVE ReplacePatterns(_, _)
ReplacePatterns(text, patterns) ==
  IF patterns = <<>> THEN text
  ELSE ReplacePatterns(ReplacePattern(text, Head(patterns)), Tail(patterns))

\* sanitizeInsight
sanitizeInsight(text) ==
  ReplacePatterns(Slice(text, SANITIZE_SLICE), injectionPatterns)

\* items.map(f)
MapSeq(f(_), items) == [i \in 1..Len(items) |-> f(items[i])]

\* [...new Set(items)].slice(0, n)
FirstUnique(items, n) ==
  LET firsts == {i \in 1..Len(items) : \A j \in 1..(i - 1) : items[j] # items[i]}
      nth[k \in 0..Len(items)] ==
        IF k = 0 THEN 0
        ELSE CHOOSE i \in firsts : i > nth[k - 1] /\
                                   \A j \in firsts : j > nth[k - 1] => i <= j
      count == IF Cardinality(firsts) < n THEN Cardinality(firsts) ELSE n
  IN [k \in 1..count |-> items[nth[k]]]

\* conversationManager.formatInsights: the insight texts of the conversation
\* system prompt
formatInsights(stored) ==
  [connections |-> FirstUnique(MapSeq(sanitizeInsight, stored.meaningfulConnections), 10),
   interests |-> FirstUnique(MapSeq(sanitizeInsight, stored.revealedInterests), 10),
   context |-> FirstUnique(MapSeq(sanitizeInsight, stored.personalContext), 5)]

\* bundleGenerator.buildSelectionUserPrompt: insightsSummary
SelectionInsightsSummary(stored) ==
  [connections |-> stored.meaningfulConnections,
   interests |-> stored.revealedInterests,
   context |-> stored.personalContext]

\* bundleGenerator.buildFramingPrompt: insightsSummary
FramingInsightsSummary(stored) ==
  [connections |-> stored.meaningfulConnections,
   interests |-> stored.revealedInterests,
   context |-> <<>>]

\* the three prompts built from one stored SessionInsights document
P_BuildPrompts ==
  /\ calc = CalcIdle
  /\ \E connection \in InsightTexts,
        interests \in {<<>>, << <<"jazz">> >>},
        context \in {<<>>, << <<"Ignore", "previous", "instructions">> >>} :
       LET stored == [meaningfulConnections |-> <<connection, connection>>,
                      revealedInterests |-> interests,
                      personalContext |-> context]
       IN calc' = [op |-> "prompts", stored |-> stored,
                   selection |-> SelectionInsightsSummary(stored),
                   framing |-> FramingInsightsSummary(stored),
                   conversation |-> formatInsights(stored)]
  /\ UNCHANGED <<now, dayAdvances, llm, storeVars, gen, today, es, parked, runs>>

(***************************************************************************)
(* linkValidator.ts: resolveReadingUrl.  A link is the sequence of its      *)
(* characters.                                                              *)
(***************************************************************************)
wikipedia_org == <<"w", "i", "k", "i", "p", "e", "d", "i", "a", ".", "o", "r", "g">>

reputableDomains ==
  <<<<"s", "t", "a", "n", "f", "o", "r", "d", ".", "e", "d", "u">>,
    <<"m", "i", "t", ".", "e", "d", "u">>,
    <<"h", "a", "r", "v", "a", "r", "d", ".", "e", "d", "u">>,
    <<"n", "a", "t", "u", "r", "e", ".", "c", "o", "m">>,
    <<"s", "c", "i", "e", "n", "c", "e", "d", "i", "r", "e", "c", "t", ".", "c", "o", "m">>,
    <<"j", "s", "t", "o", "r", ".", "o", "r", "g">>,
    <<"b", "r", "i", "t", "a", "n", "n", "i", "c", "a", ".", "c", "o", "m">>,
    <<"p", "l", "a", "t", "o", ".", "s", "t", "a", "n", "f", "o", "r", "d", ".", "e", "d", "u">>,
    <<"a", "r", "x", "i", "v", ".", "o", "r", "g">>,
    <<"n", "c", "b", "i", ".", "n", "l", "m", ".", "n", "i", "h", ".", "g", "o", "v">>>>

\* an encyclopedia article
WikiLink ==
  <<"h", "t", "t", "p", "s", ":", "/", "/", "e", "n", ".", "w", "i", "k", "i", "p", "e", "d", "i", "a", ".", "o", "r", "g", "/", "t", "a", "o">>
\* a page of another site whose path names the encyclopedia
ArchiveLink ==
  <<"h", "t", "t", "p", "s", ":", "/", "/", "w", "e", "b", ".", "a", "r", "c", "h", "i", "v", "e", ".", "o", "r", "g", "/", "w", "i", "k", "i", "p", "e", "d", "i", "a", ".", "o", "r", "g">>
\* an entry on a domain of the list
PlatoLink ==
  <<"h", "t", "t", "p", "s", ":", "/", "/", "p", "l", "a", "t", "o", ".", "s", "t", "a", "n", "f", "o", "r", "d", ".", "e", "d", "u", "/", "t", "a", "o">>
\* a site whose host name ends in the letters of a listed domain
SummitLink ==
  <<"h", "t", "t", "p", "s", ":", "/", "/", "s", "u", "m", "m", "i", "t", ".", "e", "d", "u", "/", "t", "a", "o">>
\* a general result
BlogLink ==
  <<"h", "t", "t", "p", "s", ":", "/", "/", "b", "l", "o", "g", ".", "e", "x", "a", "m", "p", "l", "e", "/", "t", "a", "o">>

ReadingLinks == {WikiLink, ArchiveLink, PlatoLink, SummitLink, BlogLink}

\* what googleSearch returns: the links of the items, in order
ReadingResults == SeqsUpTo(ReadingLinks, MaxResults)

\* reputableDomains.some(domain => result.link.includes(domain))
IsReputable(link) ==
  \E i \in 1..Len(reputableDomains) : includes(link, reputableDomains[i])

\* the first element of a non-empty sequence of positions
FirstIndex(S) == CHOOSE i \in S : \A j \in S : i <= j

\* resolveReadingUrl, given the outcome of googleSearch; None is null
resolveReadingUrl(threw, results) ==
  LET wiki == {i \in 1..Len(results) : includes(results[i], wikipedia_org)}
      reputable == {i \in 1..Len(results) : IsReputable(results[i])}
  IN IF threw \/ Len(results) = 0 THEN None
     ELSE IF wiki # {} THEN Some(results[FirstIndex(wiki)])
     ELSE IF reputable # {} THEN Some(results[FirstIndex(reputable)])
     ELSE Some(results[1])

\* resolveReadingUrl is called and returns
P_ResolveReading ==
  /\ calc = CalcIdle
  /\ \E threw \in BOOLEAN, results \in ReadingResults :
       calc' = [op |-> "resolveReadingUrl", threw |-> threw,
                results |-> results,
                returned |-> resolveReadingUrl(threw, results)]
  /\ UNCHANGED <<now, dayAdvances, llm, storeVars, gen, today, es, parked, runs>>

(***************************************************************************)
(* claude.ts: generateJSON, given what the chat request answers.           *)
(***************************************************************************)
\* str.startsWith(prefix) and str.endsWith(suffix)
startsWith(str, prefix) ==
  Len(str) >= Len(prefix) /\ SubSeq(str, 1, Len(prefix)) = prefix
endsWith(str, suffix) ==
  /\ Len(str) >= Len(suffix)
  /\ SubSeq(str, Len(str) - Len(suffix) + 1, Len(str)) = suffix

\* three backticks; the token U+0060 is the backtick
Fence == <<"U+0060", "U+0060", "U+0060">>
JsonFence == Fence \o <<"j", "s", "o", "n">>

\* the JSON text {"a":1}, the value it denotes, and a truncated text; the
\* token U+0022 is the double quote
ObjectText == <<"{", "U+0022", "a", "U+0022", ":", "1", "}">>
ObjectValue == [a |-> 1]
TruncatedText == <<"{", "U+0022", "a", "U+0022", ":">>

\* prose before and after the JSON text
ProseBefore == <<"O", "K", ":", " ">>
ProseAfter == <<" ", "O", "K">>

\* the responses of the model: a JSON text or a truncated one, bare, inside
\* a code fence, or with prose around it or around the fence
ResponseOpenings == {<<>>, JsonFence \o <<"\n">>, Fence \o <<"\n">>,
                     ProseBefore, ProseBefore \o JsonFence \o <<"\n">>}
ResponseClosings == {<<>>, <<"\n">> \o Fence, <<"\n">> \o Fence \o <<"\n">>,
                     ProseAfter}
Responses ==
  {opening \o text \o closing : opening \in ResponseOpenings,
                                text \in {ObjectText, TruncatedText},
                                closing \in ResponseClosings}

\* lines 59-68: the string handed to JSON.parse
jsonStr(response) ==
  LET trimmed == Trim(response)
      opened == IF startsWith(trimmed, JsonFence)
                THEN SubSeq(trimmed, 7 + 1, Len(trimmed))
                ELSE IF startsWith(trimmed, Fence)
                     THEN SubSeq(trimmed, 3 + 1, Len(trimmed))
                     ELSE trimmed
      closed == IF endsWith(opened, Fence)
                THEN SubSeq(opened, 1, Len(opened) - 3)
                ELSE opened
  IN Trim(closed)

\* JSON.parse on the strings the responses leave: of these only the object
\* text, with or without white space around it, is a JSON text; None is
\* the SyntaxError
JSONparse(str) == IF Trim(str) = ObjectText THEN Some(ObjectValue) ELSE None

\* generateJSON sends its one chat request (lines 52-56); chat throws when
\* the request fails or the answer holds no text block
P_ChatRequest ==
  /\ calc = CalcIdle
  /\ \/ \E response \in Responses :
          calc' = [op |-> "generateJSON", pc |-> "parse", requests |-> 1,
                   response |-> Some(response), value |-> None]
     \/ calc' = [op |-> "generateJSON", pc |-> "thrown", requests |-> 1,
                 response |-> None, value |-> None]
  /\ UNCHANGED <<now, dayAdvances, llm, storeVars, gen, today, es, parked, runs>>

\* the fences are stripped and the rest is parsed (lines 59-70)
P_ParseResponse ==
  /\ calc.op = "generateJSON"
  /\ calc.pc = "parse"
  /\ LET parsed == JSONparse(jsonStr(TheOf(calc.response)))
     IN calc' = [calc EXCEPT !.pc = IF IsSome(parsed) THEN "returned"
                                    ELSE "thrown",
                             !.value = parsed]
  /\ UNCHANGED <<now, dayAdvances, llm, storeVars, gen, today, es, parked, runs>>

(***************************************************************************)
(* The pure functions, applied to arguments drawn from bounded sets.        *)
(***************************************************************************)
MaxPhaseTarget == 8    \* targetDuration ranges over 1..MaxPhaseTarget
MaxPhaseDay == 9       \* dayInArc ranges over 1..MaxPhaseDay
MaxNameLen == 4        \* the longest enumerated creator name

PhaseOrder == [early |-> 1, middle |-> 2, late |-> 3]

\* the characters of the enumerated creator names: an upper-case and a
\* lower-case letter, the period, and two kinds of whitespace
NameAlphabet == {"T", "s", ".", " ", "\t"}

\* the two spellings of part_004:26 and CLAUDE.md
TS_Eliot == <<"T", ".", "S", ".", " ", "E", "l", "i", "o", "t">>
T_S_Eliot == <<"T", ".", " ", "S", ".", " ", "E", "l", "i", "o", "t">>
Spellings == {TS_Eliot, T_S_Eliot, TextRilke.author, TextRilkeVariant.author}

Names == SeqsUpTo(NameAlphabet, MaxNameLen) \cup Spellings

\* a text exposure whose creator is the given author, shown today
TextExposureBy(author) ==
  [artifactType |-> "text",
   artifactIdentifier |-> TitleDashArtist(TextRilke.source, author),
   creator |-> author, dateShown |-> now, arcId |-> 1, bundleId |-> now]

\* determinePhase(d1, target) and determinePhase(d2, target) for d1 <= d2
P_DeterminePhase ==
  /\ calc = CalcIdle
  /\ \E target \in 1..MaxPhaseTarget, d1 \in 1..MaxPhaseDay :
       \E d2 \in d1..MaxPhaseDay :
         calc' = [op |-> "determinePhase", target |-> target,
                  d1 |-> d1, d2 |-> d2,
                  p1 |-> determinePhase(d1, target),
                  p2 |-> determinePhase(d2, target)]
  /\ UNCHANGED <<now, dayAdvances, llm, storeVars, gen, today, es, parked, runs>>

\* normalizeCreatorName(x) and normalizeCreatorName(normalizeCreatorName(x))
P_Normalize ==
  /\ calc = CalcIdle
  /\ \E x \in Names :
       calc' = [op |-> "normalizeCreatorName", x |-> x,
                once |-> normalizeCreatorName(x),
                twice |-> normalizeCreatorName(normalizeCreatorName(x))]
  /\ UNCHANGED <<now, dayAdvances, llm, storeVars, gen, today, es, parked, runs>>

\* the text author check of generateDailyBundle: a candidate by one author
\* against a trailing window that holds a text exposure by another
P_AuthorCheck ==
  /\ calc = CalcIdle
  /\ \E shown \in Spellings, candidate \in Spellings :
       calc' = [op |-> "isRecentTextAuthor", shown |-> shown,
                candidate |-> candidate,
                match |-> isRecentTextAuthor(
                            [TextRilke EXCEPT !.author = candidate],
                            {TextExposureBy(shown)})]
  /\ UNCHANGED <<now, dayAdvances, llm, storeVars, gen, today, es, parked, runs>>

InitPure ==
  /\ HistoryInit(0)
  /\ now = 1
  /\ dayAdvances = 0
  /\ llm = FullService
  /\ gen = GenIdle
  /\ today = TodayIdle
  /\ es = EsIdle
  /\ calc = CalcIdle
  /\ parked = ParkedIdle
  /\ runs = NoRuns

NextPure ==
  \/ P_DeterminePhase \/ P_Normalize \/ P_AuthorCheck
  \/ P_ResolveStart \/ P_Search \/ P_NotFound
  \/ P_BuildPrompts
  \/ P_ResolveReading
  \/ P_ChatRequest \/ P_ParseResponse

SpecPure == InitPure /\ [][NextPure]_vars

\* C12, with the example the thresholds give: determinePhase(1, 7) = early,
\* determinePhase(4, 7) = middle, determinePhase(5, 7) = late (5/7 > 0.66) and
\* determinePhase(7, 7) = late; the phase is early when day/target <= 0.33,
\* middle when day/target <= 0.66, and late otherwise.
C12_PhaseThresholds ==
  calc.op = "determinePhase" =>
    /\ (100 * calc.d1 <= 33 * calc.target) => calc.p1 = "early"
    /\ (100 * calc.d1 > 33 * calc.target /\ 100 * calc.d1 <= 66 * calc.target)
         => calc.p1 = "middle"
    /\ (100 * calc.d1 > 66 * calc.target) => calc.p1 = "late"
    /\ (calc.target = 7 /\ calc.d1 = 1) => calc.p1 = "early"
    /\ (calc.target = 7 /\ calc.d1 = 4) => calc.p1 = "middle"
    /\ (calc.target = 7 /\ calc.d1 = 5) => calc.p1 = "late"
    /\ (calc.target = 7 /\ calc.d1 = 7) => calc.p1 = "late"

\* C12 as stated: determinePhase(1, 7) = early, determinePhase(5, 7) = middle
\* and determinePhase(7, 7) = late.
C12_AsStated ==
  (calc.op = "determinePhase" /\ calc.target = 7) =>
    /\ calc.d1 = 1 => calc.p1 = "early"
    /\ calc.d1 = 5 => calc.p1 = "middle"
    /\ calc.d1 = 7 => calc.p1 = "late"

\* C12 happens: determinePhase has been applied to day 5 of 7
C12_Witness ==
  calc.op = "determinePhase" /\ calc.target = 7 /\ calc.d1 = 5

\* C13: for every target >= 1 and all days 1 <= d1 <= d2, determinePhase(d1,
\* target) is never a later phase than determinePhase(d2, target) in the order
\* early < middle < late, and the result is one of early, middle, late.
C13_PhaseMonotonic ==
  calc.op = "determinePhase" =>
    /\ calc.p1 \in {"early", "middle", "late"}
    /\ calc.p2 \in {"early", "middle", "late"}
    /\ PhaseOrder[calc.p1] <= PhaseOrder[calc.p2]

\* C13 happens: two days of one arc in different phases, the later day past
\* the target
C13_Witness ==
  /\ calc.op = "determinePhase"
  /\ calc.d1 < calc.d2
  /\ calc.d2 > calc.target
  /\ calc.p1 = "middle"
  /\ calc.p2 = "late"

\* C14 as stated: normalizeCreatorName maps "T.S. Eliot" and "T. S. Eliot" to
\* the same string, so a text candidate by one spelling is a recent-author
\* match when the trailing window holds a text exposure by the other.
C14_EliotSpellingsMatch ==
  /\ (calc.op = "normalizeCreatorName" /\ calc.x \in {TS_Eliot, T_S_Eliot})
       => calc.once = normalizeCreatorName(TS_Eliot)
  /\ (calc.op = "isRecentTextAuthor"
        /\ {calc.shown, calc.candidate} = {TS_Eliot, T_S_Eliot})
       => calc.match

\* C15: normalizeCreatorName(normalizeCreatorName(x)) = normalizeCreatorName(x)
\* for every input string x.
C15_NormalizeIdempotent ==
  calc.op = "normalizeCreatorName" => calc.twice = calc.once

\* C15 happens: a name with a period between two kinds of whitespace, which
\* the normalizer changes
C15_Witness ==
  /\ calc.op = "normalizeCreatorName"
  /\ calc.x = <<"T", " ", ".", "\t">>
  /\ calc.once = <<"t">>

(***************************************************************************)
(* The coherence stage.                                                     *)
(***************************************************************************)
\* the number of issues of a verdict tagged with one artifact type
IssuesTagged(issues, type) ==
  Cardinality({i \in 1..Len(issues) : issues[i] = type})

\* the steps of generateDailyBundle after the coherence call has returned
AfterCoherence ==
  {"replace", "resolveMusic", "musicAlt", "musicAltResolve", "resolveImage",
   "imageAlt", "imageAltResolve", "textAlt", "framing", "persist", "done"}

\* one step of an invocation that is in, or after, the coherence stage
C16_Step ==
  \* the verdict is asked for once
  /\ gen'.calls["coherence"] <= 1
  /\ gen'.pc \in AfterCoherence => gen'.calls["coherence"] = 1
  \* a verdict without issues, or a coherent one, leads to no request
  /\ (gen.pc = "coherence" /\ gen'.pc = "resolveMusic") =>
       /\ gen'.calls["replaceImage"] = 0
       /\ gen'.calls["replaceText"] = 0
  \* while the issues are handled: one request for the issue at hand when it
  \* is tagged image or text, none when it is tagged music
  /\ gen.pc = "replace" =>
       LET issues == TheOf(gen.coherence).issues
           handled == SubSeq(issues, 1, gen.issueIdx)
       IN /\ gen'.calls["replaceImage"] = IssuesTagged(handled, "image")
          /\ gen'.calls["replaceText"] = IssuesTagged(handled, "text")
          /\ gen'.pc = "resolveMusic" => gen.issueIdx = Len(issues)
          \* the stage ends early only when a replacement request fails
          /\ gen'.pc \in {"replace", "resolveMusic", "failed"}
          /\ gen'.pc = "failed" =>
               /\ issues[gen.issueIdx] # "music"
               /\ gen'.threw \in {"replaceImage", "replaceText"}
  \* the music proposal is not touched, and no music request is made
  /\ gen.pc \in {"coherence", "replace"} =>
       /\ gen'.music = gen.music
       /\ gen'.calls["altMusic"] = 0
  \* after the stage no replacement is requested and the verdict is not asked
  \* for again
  /\ (gen.pc \in AfterCoherence \ {"replace", "done"}) =>
       /\ gen'.calls["replaceImage"] = gen.calls["replaceImage"]
       /\ gen'.calls["replaceText"] = gen.calls["replaceText"]
       /\ gen'.calls["coherence"] = gen.calls["coherence"]

\* C16: when the verdict reports issues, generateDailyBundle makes exactly one
\* replacement request for each issue tagged image or text and none for an
\* issue tagged music, so the music proposal that enters link resolution is
\* the one first proposed; the coherence validator is called once per
\* invocation, replacements are not submitted to it, and a reported issue
\* never aborts the invocation.
C16_OneReplacementPerIssue == [][C16_Step]_vars

\* C16 happens: the verdict reported a music issue and an image issue, the
\* music issue has been passed over without a request and the image issue is
\* at hand
C16_Witness ==
  /\ gen.pc = "replace"
  /\ TheOf(gen.coherence).issues = <<"music", "image">>
  /\ gen.issueIdx = 2
  /\ gen.calls["altMusic"] = 0
  /\ gen.calls["replaceImage"] = 0

(***************************************************************************)
(* The music resolver.                                                      *)
(***************************************************************************)
\* C17 as stated: resolveAppleMusicLink returns a catalog entry only if the
\* entry's track title matches the proposed title (normalized containment in
\* either direction) and the entry's artist matches the stated composer,
\* performer or artist; it never returns a different track merely because it
\* is by the same artist.
C17_ReturnedTrackMatchesTitle ==
  (calc.op = "resolveAppleMusicLink" /\ IsSome(calc.returned)) =>
    /\ stringsMatch(TheOf(calc.returned).trackName, calc.sel.title)
    /\ \E stated \in {calc.sel.composer, calc.sel.performer, calc.sel.artist} :
         stated # <<>> /\ stringsMatch(TheOf(calc.returned).artistName, stated)

(***************************************************************************)
(* Insights in prompts.                                                     *)
(***************************************************************************)
\* the insight texts a prompt section holds
TextsIn(section) ==
  {section.connections[i] : i \in 1..Len(section.connections)}
    \cup {section.interests[i] : i \in 1..Len(section.interests)}
    \cup {section.context[i] : i \in 1..Len(section.context)}

\* C18 as stated: every stored session-insight string placed into the
\* artifact-selection prompt, the framing prompt or the conversation system
\* prompt has first been passed through the insight sanitizer, so no prompt
\* holds a text the sanitizer would have changed.
C18_PromptInsightsSanitized ==
  calc.op = "prompts" =>
    \A section \in {calc.selection, calc.framing, calc.conversation} :
      \A text \in TextsIn(section) :
        /\ sanitizeInsight(text) = text
        /\ \E raw \in TextsIn(SelectionInsightsSummary(calc.stored)) :
             text = sanitizeInsight(raw)

(***************************************************************************)
(* Completion of the arc at the end of a session.                           *)
(***************************************************************************)
\* the arc an invocation of extractAndEndSession read as the active one, or,
\* when it returned before reading it, the active arc of the store (which the
\* invocation has not touched)
ArcAtSessionEnd == IF IsSome(es.arc) THEN es.arc ELSE getActiveArc

\* that arc has reached its target
ArcAtTarget ==
  /\ IsSome(ArcAtSessionEnd)
  /\ calculateDayInArc(TheOf(ArcAtSessionEnd))
       >= TheOf(ArcAtSessionEnd).targetDurationDays

ReadCompleted(read) ==
  {a \in ArcDocs : IsSome(read) /\ a.id = TheOf(read).id /\ IsSome(a.completedDate)}

\* one step of any operation: a completed arc stays in the store, completed,
\* and the arc an operation has just read as the active one is not completed
C20_Step ==
  /\ \A i \in 1..Len(arcs) :
       IsSome(arcs[i].completedDate) =>
         /\ i <= Len(arcs')
         /\ arcs'[i].id = arcs[i].id
         /\ IsSome(arcs'[i].completedDate)
  /\ gen'.arc # gen.arc => ReadCompleted(gen'.arc) = {}
  /\ today'.arc # today.arc => ReadCompleted(today'.arc) = {}
  /\ es'.arc # es.arc => ReadCompleted(es'.arc) = {}
  /\ IsSome(getActiveArc') => ~IsSome(TheOf(getActiveArc').completedDate)

\* C20: once an arc has a completedDate, no later operation (bundle
\* generation, phase update, session end, arc refinement, welcome-arc seeding)
\* clears or removes it, and a completed arc is never returned by getActiveArc
\* again.
C20_CompletionOneWay == [][C20_Step]_vars

\* C20 happens: the first arc was completed, the next arc was refined, and a
\* bundle has since been generated for the next arc
C20_Witness ==
  /\ Len(arcs) = 2
  /\ IsSome(arcs[1].completedDate)
  /\ arcs[2].theme = "refined"
  /\ gen.pc = "done"
  /\ BundleCount(arcs[2].id) = 1

(***************************************************************************)
(* Two handleGetToday requests of one user for one date.  The locals of    *)
(* the request that is running are today and gen, those of the request      *)
(* suspended at an await are parked; the requests change places between     *)
(* any two awaits.                                                          *)
(***************************************************************************)
\* a generation service with two music answers, whose proposals are coherent
\* and resolvable
RaceService ==
  [music |-> {MusicBlue, MusicFratres}, image |-> {ImageIris},
   text |-> {TextBasho},
   coherence |-> {[isCoherent |-> TRUE, issues |-> <<>>]},
   links |-> {"found"}]

\* the running request is suspended at its await and the other one resumes
Yield ==
  /\ parked' = [parked EXCEPT !.today = today, !.gen = gen]
  /\ today' = parked.today
  /\ gen' = parked.gen
  /\ UNCHANGED <<now, dayAdvances, llm, calc, runs, storeVars, es>>

InitRace ==
  /\ \E k \in {0, 2} : HistoryInit(k)
  /\ now = 1
  /\ dayAdvances = 0
  /\ llm = RaceService
  /\ gen = GenIdle
  /\ today = TodayIdle
  /\ es = EsIdle
  /\ calc = CalcIdle
  /\ parked = ParkedIdle
  /\ runs = NoRuns

NextRace ==
  \/ T_Request \/ T_GetActiveArc \/ T_CreateWelcomeArc \/ T_GetBundle
  \/ T_Generated \/ T_GenerateFailed \/ T_GetConversation \/ T_Respond
  \/ G_GetActiveArc \/ G_CalcDay \/ G_UpdatePhase
  \/ G_GetExposures \/ G_GetInsights \/ G_Select \/ G_Coherence
  \/ G_ResolveMusic \/ G_ResolveImage \/ G_Framing \/ G_Persist
  \/ Yield

SpecRace == InitRace /\ [][NextRace]_vars

\* C21: the existence check of handleGetToday does not serialize two
\* requests for one date: a pipeline that reaches createBundle when the date
\* already has a bundle (written by the other request since the check)
\* still writes, and the date then holds its bundle in place of the earlier
\* one.
C21_LaterWriteReplaces ==
  [][(/\ gen.pc = "persist"
      /\ gen.bundleId \in DOMAIN bundles
      /\ parked' = parked) =>
       /\ gen'.pc = "done"
       /\ gen'.calls["createBundle"] = 1
       /\ DOMAIN bundles' = DOMAIN bundles
       /\ bundles'[gen.bundleId] = TheOf(gen'.bundle)]_vars

\* C21 happens: both requests saw no bundle, both ran the pipeline to its
\* end and both wrote; the date holds the bundle written last, which differs
\* from the one written first
C21_Witness ==
  /\ today.pc = "generating" /\ parked.today.pc = "generating"
  /\ today.date = parked.today.date
  /\ gen.pc = "done" /\ parked.gen.pc = "done"
  /\ gen.calls["createBundle"] = 1 /\ parked.gen.calls["createBundle"] = 1
  /\ bundles[today.date] = TheOf(gen.bundle)
  /\ TheOf(gen.bundle) # TheOf(parked.gen.bundle)

(***************************************************************************)
(* C22: sequential requests for the day's bundle are idempotent.  When a   *)
(* bundle is stored for the date, the existence check starts no pipeline,  *)
(* hands the stored bundle to the response and changes nothing in the      *)
(* store; the pipeline is started only for a date without a bundle, and a  *)
(* bundle is written only for a date that has none, so no date's bundle is *)
(* generated twice.  A run that fails stores nothing, and the next request *)
(* for the date starts the pipeline again.                                 *)
(***************************************************************************)
\* a step in which handleGetToday calls generateDailyBundle
PipelineStarted == today.pc = "getBundle" /\ today'.pc = "generating"

C22_Step ==
  /\ DOMAIN bundles \subseteq DOMAIN bundles'
  /\ (today.pc = "getBundle" /\ today'.pc # "getBundle"
        /\ today.date \in DOMAIN bundles) =>
       /\ today'.pc = "getConversation"
       /\ today'.bundle = Some(bundles[today.date])
       /\ gen' = gen /\ runs' = runs
       /\ UNCHANGED storeVars
  /\ PipelineStarted =>
       /\ today.date \notin DOMAIN bundles
       /\ today.date \in runs'
  /\ (gen.pc = "persist" /\ gen'.pc = "done") =>
       gen.bundleId \notin DOMAIN bundles

C22_SequentialIdempotent == [][C22_Step]_vars

\* as stated: the pipeline runs at most once for a date
C22_AsStated == [][PipelineStarted => today.date \notin runs]_vars

\* a later request is answered with the stored bundle, which a message has
\* marked delivered meanwhile
C22_Witness ==
  /\ today.pc = "getConversation"
  /\ IsSome(today.bundle)
  /\ TheOf(today.bundle) = bundles[today.date]
  /\ TheOf(today.bundle).status = "delivered"
  /\ today.date \in runs
  /\ gen = GenIdle

\* the host of a link: what stands between the scheme and the path
Scheme == <<"h", "t", "t", "p", "s", ":", "/", "/">>
HostEnd(link) ==
  FirstIndex({i \in (Len(Scheme) + 1)..(Len(link) + 1) :
                i = Len(link) + 1 \/ link[i] = "/"})
HostOf(link) == SubSeq(link, Len(Scheme) + 1, HostEnd(link) - 1)

\* the host is the domain or one of its subdomains
OnDomain(link, domain) ==
  LET host == HostOf(link)
  IN \/ host = domain
     \/ /\ Len(host) > Len(domain)
        /\ SubSeq(host, Len(host) - Len(domain), Len(host)) = <<".">> \o domain

OnAllowList(link) ==
  \E i \in 1..Len(reputableDomains) : OnDomain(link, reputableDomains[i])

\* C23: resolveReadingUrl returns nothing when the search fails or finds
\* nothing; otherwise the first result on the encyclopedia domain
\* wikipedia.org if there is one, otherwise the first result on a domain of
\* the allow-list if there is one, otherwise the first result.
C23_PrefersEncyclopediaThenAllowList ==
  calc.op = "resolveReadingUrl" =>
    LET results == calc.results
        wiki == {i \in 1..Len(results) : OnDomain(results[i], wikipedia_org)}
        listed == {i \in 1..Len(results) : OnAllowList(results[i])}
    IN calc.returned =
         IF calc.threw \/ Len(results) = 0 THEN None
         ELSE IF wiki # {} THEN Some(results[FirstIndex(wiki)])
         ELSE IF listed # {} THEN Some(results[FirstIndex(listed)])
         ELSE Some(results[1])

(***************************************************************************)
(* C24: each retry loop stops as soon as its count of failed selections    *)
(* reaches the constant of its type (5 music, 3 image, 3 text).  The count *)
(* grows by one with every alternative requested, so at most MAX           *)
(* alternatives are requested and, counting the proposal the loop starts   *)
(* with, at most MAX + 1 candidates are evaluated.                         *)
(***************************************************************************)
C24_LoopBudget ==
  /\ gen.failedMusic = gen.calls["altMusic"]
  /\ gen.failedImage = gen.calls["altImage"]
  /\ gen.failedText = gen.calls["altText"]
  /\ gen.calls["altMusic"] <= MAX_MUSIC_RETRIES
  /\ gen.calls["altImage"] <= MAX_IMAGE_RETRIES
  /\ gen.calls["altText"] <= MAX_TEXT_RETRIES
  /\ gen.calls["resolveMusic"] <= MAX_MUSIC_RETRIES + 1
  /\ gen.calls["resolveImage"] <= MAX_IMAGE_RETRIES + 1
  /\ gen.failedMusic = MAX_MUSIC_RETRIES => gen.pc # "musicAlt"
  /\ gen.failedImage = MAX_IMAGE_RETRIES => gen.pc # "imageAlt"
  /\ gen.failedText = MAX_TEXT_RETRIES => gen.pc # "textAlt"

\* as stated: at most MAX - 1 alternatives are requested and at most MAX
\* candidates are evaluated
C24_AsStated ==
  /\ gen.calls["altMusic"] <= MAX_MUSIC_RETRIES - 1
  /\ gen.calls["altImage"] <= MAX_IMAGE_RETRIES - 1
  /\ gen.calls["altText"] <= MAX_TEXT_RETRIES - 1
  /\ gen.calls["resolveMusic"] <= MAX_MUSIC_RETRIES
  /\ gen.calls["resolveImage"] <= MAX_IMAGE_RETRIES

\* a bundle was stored after the music loop had looked up six candidates and
\* the image loop four, and the text loop had asked for three alternatives
C24_Witness ==
  /\ gen.pc = "done"
  /\ gen.calls["altMusic"] = MAX_MUSIC_RETRIES
  /\ gen.calls["resolveMusic"] = MAX_MUSIC_RETRIES + 1
  /\ gen.calls["altImage"] = MAX_IMAGE_RETRIES
  /\ gen.calls["resolveImage"] = MAX_IMAGE_RETRIES + 1
  /\ gen.calls["altText"] = MAX_TEXT_RETRIES

\* the normalized author of the current text is a normalized creator of a
\* text exposure of the trailing window
AuthorShownRecently ==
  \E e \in getRecentExposures(EXPOSURE_WINDOW_DAYS) :
    /\ e.artifactType = "text"
    /\ e.creator # <<>>
    /\ normalizeCreatorName(e.creator) = normalizeCreatorName(gen.text.author)

\* the text loop has been left
AfterTextLoop ==
  \/ gen.pc \in {"framing", "persist", "done"}
  \/ gen.pc = "failed" /\ gen.threw = "framing"

\* C26: the text loop calls no resolver.  It requests an alternative exactly
\* when the normalized author of the current text is among the normalized
\* creators of the text exposures of the trailing window and fewer than 3
\* alternatives have been requested; when it is left, the final author is
\* not a recent one or exactly 3 alternatives have been requested.
C26_State ==
  /\ gen.pc = "textAlt" =>
       AuthorShownRecently /\ gen.calls["altText"] < MAX_TEXT_RETRIES
  /\ AfterTextLoop =>
       ~AuthorShownRecently \/ gen.calls["altText"] = MAX_TEXT_RETRIES

C26_Step ==
  gen.pc = "textAlt" =>
    /\ gen'.calls["altText"] = gen.calls["altText"] + 1
    /\ \A k \in ResolverCalls : gen'.calls[k] = gen.calls[k]
    /\ gen'.pc \in {"textAlt", "framing", "failed"}

C26_TextLoop == []C26_State /\ [][C26_Step]_vars

\* the loop was left before its budget was used up: an alternative by an
\* author not shown recently was accepted
C26_Witness ==
  /\ gen.pc = "done"
  /\ gen.calls["altText"] \in 1..(MAX_TEXT_RETRIES - 1)
  /\ ~AuthorShownRecently
  /\ \E e \in getRecentExposures(EXPOSURE_WINDOW_DAYS) : e.artifactType = "text"

\* the normalized "title - artist" of the current music is the normalized
\* identifier of a music exposure of the trailing window
MusicShownRecently ==
  \E e \in getRecentExposures(EXPOSURE_WINDOW_DAYS) :
    /\ e.artifactType = "music"
    /\ normalizeCreatorName(e.artifactIdentifier) =
         normalizeCreatorName(TitleDashArtist(gen.music.title, gen.music.artist))

\* C27: the music loop has the shape of the image loop.  While fewer than 5
\* music alternatives have been requested, a music candidate that was looked
\* up and is a recent duplicate (its normalized "title - artist" is that of a
\* music exposure of the trailing window) is not accepted: an alternative is
\* about to be requested, or that request has failed.
C27_DuplicateMusicRejected ==
  (/\ gen.calls["resolveMusic"] > 0
   /\ gen.pc # "musicAltResolve"
   /\ gen.failedMusic < MAX_MUSIC_RETRIES
   /\ MusicShownRecently) =>
    /\ gen.pc \in {"musicAlt", "failed"}
    /\ gen.pc = "failed" => gen.threw = "altMusic"

\* the identifiers of the exposures of a type in the trailing window
WindowIdentifiers(type) ==
  {e.artifactIdentifier :
     e \in {x \in getRecentExposures(EXPOSURE_WINDOW_DAYS) : x.artifactType = type}}

\* a step that issues a coherence replacement request for the type
ReplacementRequested(call) == gen'.calls[call] = gen.calls[call] + 1

(***************************************************************************)
(* C28: every coherence replacement request carries the counterpart the    *)
(* replacement has to cohere with (the current text for an image, the      *)
(* current image for a text), the artifact being replaced, the problem and *)
(* the suggested fix of the issue, and the identifiers of all exposures of *)
(* the replaced type in the trailing window: a request for a flagged image *)
(* lists every image exposure of the window.  The music is in no request.  *)
(***************************************************************************)
C28_Step ==
  /\ ReplacementRequested("replaceImage") =>
       LET prompt == TheOf(gen'.replacementPrompt)
           issue == TheOf(gen.coherence).issues[gen.issueIdx]
       IN /\ prompt.replaces = "image" /\ issue = "image"
          /\ prompt.text = [content |-> gen.text.content, author |-> gen.text.author]
          /\ prompt.image = [title |-> gen.image.title, artist |-> gen.image.artist]
          /\ prompt.problem = issue /\ prompt.suggestion = issue
          /\ prompt.recent = WindowIdentifiers("image")
          /\ "music" \notin DOMAIN prompt
  /\ ReplacementRequested("replaceText") =>
       LET prompt == TheOf(gen'.replacementPrompt)
           issue == TheOf(gen.coherence).issues[gen.issueIdx]
       IN /\ prompt.replaces = "text" /\ issue = "text"
          /\ prompt.image = [title |-> gen.image.title, artist |-> gen.image.artist]
          /\ prompt.text = [content |-> gen.text.content, author |-> gen.text.author]
          /\ prompt.problem = issue /\ prompt.suggestion = issue
          /\ prompt.recent = WindowIdentifiers("text")
          /\ "music" \notin DOMAIN prompt

C28_ReplacementRequestContents == [][C28_Step]_vars

\* as stated: the request carries both artifacts that are not being replaced
C28_BothUntouchedArtifacts ==
  IsSome(gen.replacementPrompt) =>
    LET prompt == TheOf(gen.replacementPrompt)
    IN ({"music", "image", "text"} \ {prompt.replaces}) \subseteq DOMAIN prompt

\* an image replacement was requested while the window held image exposures
C28_Witness ==
  /\ gen.calls["replaceImage"] = 1
  /\ gen.pc = "resolveMusic"
  /\ IsSome(gen.replacementPrompt)
  /\ TheOf(gen.replacementPrompt).replaces = "image"
  /\ TheOf(gen.replacementPrompt).recent = WindowIdentifiers("image")
  /\ WindowIdentifiers("image") # {}

\* the stages before link resolution, and those of the music loop
BeforeResolution == {"idle", "getActiveArc", "calcDay", "updatePhase",
                     "getExposures", "getInsights", "select", "coherence",
                     "replace"}
MusicLoopStages == {"resolveMusic", "musicAlt", "musicAltResolve"}

\* the framing call has been reached
FramingReached ==
  \/ gen.pc \in {"framing", "persist", "done"}
  \/ gen.pc = "failed" /\ gen.threw = "framing"

(***************************************************************************)
(* C29: no resolver is called before the coherence stage has finished, and *)
(* a candidate that a coherence replacement introduced goes through the    *)
(* same link resolution and duplicate checks as a proposed one: it is the  *)
(* candidate the first look-up of its loop is made for, and when the       *)
(* framing call is reached after a replacement, the image has been looked  *)
(* up and is linked and no recent duplicate unless its loop was exhausted, *)
(* and the author of the text is not a recent one unless its loop was      *)
(* exhausted.                                                              *)
(***************************************************************************)
C29_State ==
  /\ gen.pc \in BeforeResolution =>
       \A k \in ResolverCalls : gen.calls[k] = 0
  /\ (\E k \in ResolverCalls : gen.calls[k] > 0) =>
       /\ gen.calls["coherence"] = 1
       /\ ~IsSome(gen.coherence)
  /\ (FramingReached /\ gen.calls["replaceImage"] > 0) =>
       /\ gen.calls["resolveImage"] >= 1
       /\ \/ /\ IsSome(gen.imageLink)
             /\ ~isRecentImageDuplicate(gen.image, gen.exposures)
          \/ gen.failedImage = MAX_IMAGE_RETRIES
  /\ (FramingReached /\ gen.calls["replaceText"] > 0) =>
       \/ ~isRecentTextAuthor(gen.text, gen.exposures)
       \/ gen.failedText = MAX_TEXT_RETRIES

C29_Step ==
  /\ (/\ gen.pc \notin {"idle", "done", "failed"}
      /\ \E k \in ResolverCalls : gen.calls[k] > 0) =>
       /\ gen'.calls["replaceImage"] = gen.calls["replaceImage"]
       /\ gen'.calls["replaceText"] = gen.calls["replaceText"]
       /\ gen'.calls["coherence"] = gen.calls["coherence"]
  /\ gen.pc \in MusicLoopStages =>
       gen'.image = gen.image /\ gen'.text = gen.text
  /\ gen.pc = "resolveImage" =>
       /\ gen'.calls["resolveImage"] = 1
       /\ gen'.image = gen.image /\ gen'.text = gen.text
       /\ gen'.imageLink \in {ImageLinkAnswer(gen.image, found) : found \in BOOLEAN}

C29_ResolutionAfterCoherence == []C29_State /\ [][C29_Step]_vars

\* a bundle was stored whose image and text came from coherence replacements
\* and were accepted by their loops without an alternative
C29_Witness ==
  /\ gen.pc = "done"
  /\ gen.calls["replaceImage"] = 1
  /\ gen.calls["replaceText"] = 1
  /\ gen.calls["resolveImage"] = 1
  /\ gen.calls["altImage"] = 0
  /\ gen.calls["altText"] = 0
  /\ IsSome(gen.imageLink)

\* the stages of step 1, up to the selection call
ContextStages == {"getActiveArc", "calcDay", "updatePhase", "getExposures",
                  "getInsights"}

\* the arc documents differ at most in the phase of the arc named
OnlyPhaseOf(arcId, before, after) ==
  /\ Len(after) = Len(before)
  /\ \A i \in 1..Len(before) :
       /\ [after[i] EXCEPT !.currentPhase = before[i].currentPhase] = before[i]
       /\ after[i] # before[i] => before[i].id = arcId

(***************************************************************************)
(* C30: while generateDailyBundle gathers its context (the active arc, the *)
(* day and phase, the trailing exposure window and the recent insights, up *)
(* to the first generation call), bundles, exposures, insights and         *)
(* conversations are not written, and the only write to the arcs is        *)
(* updateArcPhase: when the phase computed for the new day differs from    *)
(* the stored one, the currentPhase of the active arc is set to it.        *)
(***************************************************************************)
C30_Step ==
  gen.pc \in ContextStages =>
    /\ UNCHANGED <<bundles, exposures, insights, conversations>>
    /\ gen'.calls["select"] = 0
    /\ arcs' # arcs =>
         LET arc == TheOf(gen.arc)
             phase == determinePhase(gen.dayInArc, arc.targetDurationDays)
         IN /\ gen.pc = "updatePhase"
            /\ phase # arc.currentPhase
            /\ OnlyPhaseOf(arc.id, arcs, arcs')
            /\ \E i \in 1..Len(arcs') :
                 arcs'[i].id = arc.id /\ arcs'[i].currentPhase = phase
            /\ gen'.calls["updateArcPhase"] = 1
    /\ arcs' = arcs => gen'.calls["updateArcPhase"] = gen.calls["updateArcPhase"]

C30_ContextWritesPhaseOnly == [][C30_Step]_vars

\* as stated: the stage writes nothing
C30_ContextReadOnly == [][gen.pc \in ContextStages => UNCHANGED storeVars]_vars

\* the phase of the active arc was updated before the selection call
C30_Witness ==
  /\ gen.pc = "getExposures"
  /\ gen.calls["updateArcPhase"] = 1
  /\ gen.calls["select"] = 0
  /\ \E i \in 1..Len(arcs) :
       /\ arcs[i].id = TheOf(gen.arc).id
       /\ arcs[i].currentPhase = "middle"
       /\ arcs[i].currentPhase = TheOf(gen.arc).currentPhase

\* an invocation is running
GenRunning == gen.pc \notin {"idle", "done", "failed"}

\* the calls of a run are bounded: one verdict, at most one replacement per
\* issue handled, and the alternatives of each loop by its constant
C25_Bounded ==
  /\ gen.calls["select"] <= 1
  /\ gen.calls["coherence"] <= 1
  /\ gen.calls["framing"] <= 1
  /\ gen.calls["replaceImage"] + gen.calls["replaceText"] <= MaxIssues
  /\ IsSome(gen.coherence) =>
       /\ gen.issueIdx <= Len(TheOf(gen.coherence).issues)
       /\ gen.calls["replaceImage"] + gen.calls["replaceText"] <= gen.issueIdx
  /\ gen.calls["altMusic"] <= MAX_MUSIC_RETRIES
  /\ gen.calls["altImage"] <= MAX_IMAGE_RETRIES
  /\ gen.calls["altText"] <= MAX_TEXT_RETRIES

\* C25: when every call it awaits returns, every run of generateDailyBundle
\* ends, with the bundle stored or with an exception, whatever the services
\* answer; the replacement requests are bounded by the number of issues of
\* the one coherence verdict and the alternative requests by the constants
\* of the three loops.
C25_Terminates ==
  /\ []C25_Bounded
  /\ GenRunning ~> (gen.pc \in {"done", "failed"})

\* a run ended with its bundle stored after every budget had been used up
C25_Witness ==
  /\ gen.pc = "done"
  /\ gen.calls["replaceImage"] + gen.calls["replaceText"] = MaxIssues
  /\ gen.calls["altMusic"] = MAX_MUSIC_RETRIES
  /\ gen.calls["altImage"] = MAX_IMAGE_RETRIES
  /\ gen.calls["altText"] = MAX_TEXT_RETRIES
  /\ gen.warnings # {}

(***************************************************************************)
(* Claims about the phase update of generateDailyBundle                    *)
(***************************************************************************)

\* the currentPhase stored for the arc document with this id
StoredPhase(arcId) ==
  (CHOOSE a \in {arcs[i] : i \in 1..Len(arcs)} : a.id = arcId).currentPhase

\* the phase generateDailyBundle computes for the bundle it is generating
ComputedPhase == determinePhase(gen.dayInArc, TheOf(gen.arc).targetDurationDays)

\* the stages of an invocation after the phase update
AfterPhaseUpdate == {"getExposures", "getInsights", "select", "coherence",
                     "replace", "resolveMusic", "musicAlt", "musicAltResolve",
                     "resolveImage", "imageAlt", "imageAltResolve", "textAlt",
                     "framing", "persist", "done"}

C31_State ==
  gen.pc \in AfterPhaseUpdate => StoredPhase(TheOf(gen.arc).id) = ComputedPhase

C31_Step ==
  /\ gen.pc = "calcDay" =>
       LET arc == TheOf(gen.arc)
           phase == determinePhase(calculateDayInArc(arc) + 1,
                                   arc.targetDurationDays)
       IN /\ arcs' = arcs
          /\ gen'.calls["updateArcPhase"] = 0
          /\ (gen'.pc = "updatePhase") <=> (phase # StoredPhase(arc.id))
          /\ (gen'.pc = "getExposures") <=> (phase = StoredPhase(arc.id))
  /\ gen.pc = "updatePhase" =>
       /\ ComputedPhase # StoredPhase(TheOf(gen.arc).id)
       /\ arcs' = WithPhase(arcs, TheOf(gen.arc).id, ComputedPhase)
       /\ arcs' # arcs
       /\ gen'.calls["updateArcPhase"] = 1
  /\ gen.pc \notin {"calcDay", "updatePhase"} =>
       /\ arcs' = arcs
       /\ gen'.calls["updateArcPhase"] = gen.calls["updateArcPhase"]
            \/ gen'.calls = NoCalls

(***************************************************************************)
(* C31: generateDailyBundle writes the arc's currentPhase if and only if   *)
(* determinePhase(dayInArc, targetDurationDays) differs from the stored    *)
(* currentPhase; when they are equal the arc documents are left as they    *)
(* are, and from this step to the end of the invocation the stored phase   *)
(* is the computed one.                                                    *)
(***************************************************************************)
C31_PhaseWrittenIffChanged == []C31_State /\ [][C31_Step]_vars

\* the phases were equal: the invocation went on without a write to the arc
C31_Witness ==
  /\ gen.pc = "getExposures"
  /\ gen.calls["updateArcPhase"] = 0
  /\ gen.dayInArc > 1
  /\ StoredPhase(TheOf(gen.arc).id) = ComputedPhase

(***************************************************************************)
(* Claims about generateJSON                                               *)
(***************************************************************************)

\* the response holds the JSON text: bare, fenced, or with prose around it
HoldsJsonText(response) == includes(response, ObjectText)

GenerateJsonEnded == calc.op = "generateJSON" /\ calc.pc \in {"returned", "thrown"}

\* C32: generateJSON returns the parsed value when the response of the model
\* is bare JSON, JSON inside a code fence, or JSON surrounded by prose; when
\* the response cannot be coerced the call fails, and in every case exactly
\* one request was made to the model.
C32_ToleratesFencesAndProse ==
  GenerateJsonEnded =>
    /\ calc.requests = 1
    /\ IF IsSome(calc.response) /\ HoldsJsonText(TheOf(calc.response))
       THEN calc.pc = "returned" /\ calc.value = Some(ObjectValue)
       ELSE calc.pc = "thrown" /\ calc.value = None

(***************************************************************************)
(* Claims about the link resolvers                                         *)
(***************************************************************************)

MusicResolverStages == {"resolveMusic", "musicAltResolve"}
ImageResolverStages == {"resolveImage", "imageAltResolve"}

\* no invocation has ended with an exception of a resolver
C33_State == gen.threw \notin {"resolveMusic", "resolveImage"}

C33_Step ==
  /\ gen.pc \in MusicResolverStages =>
       /\ gen'.pc # "failed"
       /\ gen'.error = None
       /\ gen'.calls["resolveMusic"] = gen.calls["resolveMusic"] + 1
       /\ gen'.failedMusic = gen.failedMusic
       /\ gen'.musicLink = None =>
            gen'.pc = IF gen.failedMusic < MAX_MUSIC_RETRIES THEN "musicAlt"
                      ELSE "resolveImage"
  /\ gen.pc \in ImageResolverStages =>
       /\ gen'.pc # "failed"
       /\ gen'.error = None
       /\ gen'.calls["resolveImage"] = gen.calls["resolveImage"] + 1
       /\ gen'.failedImage = gen.failedImage
       /\ gen'.imageLink = None =>
            IF gen.failedImage < MAX_IMAGE_RETRIES THEN gen'.pc = "imageAlt"
            ELSE gen'.pc \in {"textAlt", "framing"}
  /\ gen.pc = "musicAlt" => gen'.failedMusic = gen.failedMusic + 1
  /\ gen.pc = "imageAlt" => gen'.failedImage = gen.failedImage + 1

(***************************************************************************)
(* C33: resolveAppleMusicLink and resolveImageLink never raise: whatever   *)
(* happens inside them (no match, a rejected fetch, a non-OK answer of a   *)
(* search API) the call of generateDailyBundle returns, with null when     *)
(* nothing was found.  generateDailyBundle never fails at a resolver call; *)
(* after a null result it requests an alternative, which counts as one     *)
(* failed selection, while the count is below the maximum of the type, and *)
(* goes on to the next stage otherwise.                                    *)
(***************************************************************************)
C33_ResolversNeverRaise == []C33_State /\ [][C33_Step]_vars

\* the first image look-up came back with null for an image that is no
\* recent duplicate, and an alternative is about to be requested
C33_Witness ==
  /\ gen.pc = "imageAlt"
  /\ gen.calls["resolveImage"] = 1
  /\ gen.failedImage = 0
  /\ gen.imageLink = None
  /\ ~isRecentImageDuplicate(gen.image, gen.exposures)

(***************************************************************************)
(* Claims about the references of the persisted bundle                     *)
(***************************************************************************)

\* the bundle the invocation has stored
PersistedBundle == bundles[gen.bundleId]

\* the references the resolvers return for the artifacts the bundle names
MusicReferenceOf(b) == TheOf(MusicLinkAnswer(b.music, TRUE)).appleMusicUrl
ImageReferenceOf(b) == TheOf(ImageLinkAnswer(b.image, TRUE))

\* the number of look-ups is that of the candidates looked up: the proposal
\* and every alternative that was not skipped as a recent duplicate
C34_Step ==
  /\ gen.pc = "musicAlt" /\ gen'.pc # "failed" =>
       /\ gen'.pc = "musicAltResolve"
       /\ gen'.music = TheOf(gen'.musicAlt)
  /\ gen.pc = "musicAltResolve" =>
       gen'.musicLink \in {None, MusicLinkAnswer(gen.music, TRUE)}
  /\ gen.pc = "imageAlt" /\ gen'.pc # "failed" =>
       \/ gen'.pc = "imageAltResolve" /\ gen'.image = TheOf(gen'.imageAlt)
       \/ gen'.imageLink = None
  /\ gen.pc = "imageAltResolve" =>
       gen'.imageLink \in {None, ImageLinkAnswer(gen.image, TRUE)}

C34_State ==
  (gen.pc = "done" /\ gen.bundleId \in DOMAIN bundles) =>
    LET b == PersistedBundle
    IN /\ b.music.appleMusicUrl # <<>> =>
            /\ gen.calls["resolveMusic"] >= 1
            /\ b.music.appleMusicUrl = MusicReferenceOf(b)
       /\ b.image.imageUrl # <<>> =>
            /\ gen.calls["resolveImage"] >= 1
            /\ b.image.imageUrl = ImageReferenceOf(b).imageUrl
            /\ b.image.sourceUrl = ImageReferenceOf(b).sourceUrl
       /\ (b.image.imageUrl = <<>>) <=> (b.image.sourceUrl = <<>>)
       /\ b.music.title = gen.music.title /\ b.image.title = gen.image.title

(***************************************************************************)
(* C34: in the persisted bundle a non-empty music or image reference is    *)
(* the one the resolver returned for the candidate whose title and artist  *)
(* are persisted with it; a reference resolved for an earlier, rejected    *)
(* candidate is never stored together with a later candidate.              *)
(***************************************************************************)
C34_ReferenceOfPersistedCandidate == []C34_State /\ [][C34_Step]_vars

\* a bundle was stored whose image is the second alternative, with the
\* reference found for it, after two images were rejected
C34_Witness ==
  /\ gen.pc = "done"
  /\ gen.bundleId \in DOMAIN bundles
  /\ gen.calls["altImage"] = 2
  /\ gen.calls["resolveImage"] >= 2
  /\ PersistedBundle.image.imageUrl # <<>>
  /\ PersistedBundle.music.appleMusicUrl # <<>>

(***************************************************************************)
(* Claims about the day handleGetToday reports                             *)
(***************************************************************************)

\* the request generated its bundle and has answered
AnsweredWithNewBundle == today.pc = "responded" /\ IsSome(today.promptDay)

\* C35: for a bundle generated inside a handleGetToday request, the dayInArc
\* of the response equals the dayInArc that the prompts of that bundle
\* stated, whatever the number of bundles the arc had before.
C35_ReportedDayIsPromptDay ==
  AnsweredWithNewBundle =>
    TheOf(today.response).dayInArc = TheOf(today.promptDay)

(***************************************************************************)
(* Two extractAndEndSession invocations for one bundle: the end-session    *)
(* request of the user and checkInactiveSessions (part_000:4-34), which    *)
(* calls extractAndEndSession for every stale conversation.  Node runs one *)
(* of them at a time and switches at an await: the one that is suspended   *)
(* is parked.  The day is the last of the arc: the bundle of today is the  *)
(* seventh of the arc, it has been delivered, and its conversation has not *)
(* been ended.                                                             *)
(***************************************************************************)
\* the days of the k bundles of the arc, the last of them today's
BundleDays(k) == (2 - k)..1

\* the stores on day k of the welcome arc, after today's bundle was delivered
InitEndDay(k) ==
  /\ now = 1
  /\ dayAdvances = 0
  /\ llm = RaceService
  /\ arcs = <<[id |-> 1, theme |-> "Beginnings",
               startDate |-> 2 - k,
               targetDurationDays |-> TARGET_DURATION_DAYS,
               currentPhase |-> PhaseAfter(k),
               completedDate |-> None]>>
  /\ bundles = [d \in BundleDays(k) |-> EarlierBundle(d)]
  /\ exposures = UNION {ExposuresOf(EarlierBundle(d), d) : d \in BundleDays(k)}
  /\ \E messages \in {0, 2} :
       conversations =
         [d \in BundleDays(k) |->
            IF d = now THEN [messages |-> messages, sessionEnded |-> FALSE]
            ELSE [messages |-> 2, sessionEnded |-> TRUE]]
  /\ insights = [d \in BundleDays(k) \ {now} |->
                   [id |-> d, date |-> d, arcId |-> 1]]
  /\ gen = GenIdle
  /\ today = TodayIdle
  /\ es = EsIdle
  /\ calc = CalcIdle
  /\ parked = ParkedIdle
  /\ runs = NoRuns

\* the invocation that runs is suspended at its await and the other resumes
YieldSession ==
  /\ parked' = [parked EXCEPT !.es = es]
  /\ es' = parked.es
  /\ UNCHANGED <<now, dayAdvances, llm, calc, runs, storeVars, gen, today>>

InitEndRace == InitEndDay(TARGET_DURATION_DAYS)

NextEndRace ==
  \/ ES_Start \/ ES_GetConversation \/ ES_MarkEnded
  \/ XI_GetConversation \/ XI_GetActiveArc \/ XI_Extract \/ XI_CreateInsights
  \/ XI_ResolveReading \/ XI_UpdateReading \/ XI_MarkEnded
  \/ ES_GetActiveArc \/ ES_CalcDay
  \/ AC_GetArcBundles \/ AC_GetArcInsights \/ AC_Summary \/ AC_NextArc
  \/ AC_CreateArc \/ ES_CompleteArc
  \/ YieldSession

SpecEndRace == InitEndRace /\ [][NextEndRace]_vars

\* the arcs generateArcCompletion has created
NextArcs == {i \in 1..Len(arcs) : arcs[i].theme = "next"}

\* C36: however two extractAndEndSession invocations for the same bundle
\* interleave on the last day of the arc, at most one next arc is created
\* and completeArc is applied to the finishing arc at most once.
C36_OneRollOverUnderRace ==
  /\ Cardinality(NextArcs) <= 1
  /\ es.calls["completeArc"] + parked.es.calls["completeArc"] <= 1

(***************************************************************************)
(* A day of the arc, one request at a time: the user sends messages,       *)
(* refines the theme of the pending arc, and end-session                   *)
(* requests for today's bundle are repeated for ever.  Every step of an    *)
(* invocation is taken in the end; a call of the generation service that   *)
(* is made again and again succeeds in the end.                            *)
(***************************************************************************)
EndSessionStep ==
  \/ ES_Start \/ ES_GetConversation \/ ES_MarkEnded
  \/ XI_GetConversation \/ XI_GetActiveArc \/ XI_Extract \/ XI_CreateInsights
  \/ XI_ResolveReading \/ XI_UpdateReading \/ XI_MarkEnded
  \/ ES_GetActiveArc \/ ES_CalcDay
  \/ AC_GetArcBundles \/ AC_GetArcInsights \/ AC_Summary \/ AC_NextArc
  \/ AC_CreateArc \/ ES_CompleteArc

NextEndSession == EndSessionStep \/ PostMessage \/ RA_Refine

\* any day of the arc
InitEndSession == \E k \in 1..TARGET_DURATION_DAYS : InitEndDay(k)

SpecEndSessionLive ==
  /\ InitEndSession
  /\ [][NextEndSession]_vars
  /\ WF_vars(EndSessionStep)
  /\ SF_vars(XI_Extract /\ es'.pc = "xiCreateInsights")
  /\ SF_vars(AC_Summary /\ es'.pc = "acNextArc")
  /\ SF_vars(AC_NextArc /\ es'.pc = "acCreateArc")

\* the arc of the bundle has reached its target and is open
FinishingArcOpen ==
  \E i \in 1..Len(arcs) :
    /\ arcs[i].id = bundles[now].arcId
    /\ ~IsSome(arcs[i].completedDate)
    /\ calculateDayInArc(arcs[i]) >= arcs[i].targetDurationDays

\* an invocation failed in the arc-completion step after the conversation
\* had been marked as ended
CompletionFailedAfterEnd ==
  /\ es.pc = "failed"
  /\ conversations[now].sessionEnded
  /\ FinishingArcOpen

\* C37: when the arc-completion step of extractAndEndSession has failed
\* after the conversation was marked as ended, repeated end-session requests
\* for the same bundle complete the arc in the end.
C37_RetryCompletesArc == CompletionFailedAfterEnd ~> ~FinishingArcOpen

(***************************************************************************)
(* Claims about extractInsights                                            *)
(***************************************************************************)

\* the stages of extractInsights inside an invocation
ExtractInsightsStages == {"xiGetConversation", "xiGetActiveArc", "xiExtract",
                          "xiCreateInsights", "xiResolveReading",
                          "xiUpdateReading", "xiMarkEnded"}

\* the invocation failed before it had marked the conversation as ended
FailedBeforeEnd == es.pc = "failed" /\ es.calls["markEnded"] = 0

C38_State ==
  FailedBeforeEnd =>
    /\ es.calls["createSessionInsights"] = 0
    /\ ~conversations[es.bundleId].sessionEnded
    /\ es.bundleId \notin DOMAIN insights

C38_Step ==
  /\ es.pc \in ExtractInsightsStages /\ conversations' # conversations =>
       /\ es.pc = "xiMarkEnded"
       /\ es.calls["createSessionInsights"] = 1
       /\ es.bundleId \in DOMAIN insights
       /\ conversations' = WithSessionEnded(conversations, es.bundleId)
  /\ es.pc \in ExtractInsightsStages /\ insights' # insights =>
       /\ es.pc = "xiCreateInsights"
       /\ ~conversations[es.bundleId].sessionEnded
  /\ es.pc = "xiExtract" /\ es'.pc = "failed" =>
       UNCHANGED <<conversations, insights, bundles, arcs>>
  /\ FailedBeforeEnd /\ es'.pc = "getConversation" =>
       es'.bundleId = es.bundleId
  /\ /\ es.pc = "getConversation"
     /\ es.bundleId \in DOMAIN conversations
     /\ ~conversations[es.bundleId].sessionEnded
     => es'.pc \in {"xiGetConversation", "markEnded"}

(***************************************************************************)
(* C38: extractInsights sets the sessionEnded flag of the conversation     *)
(* only after the session insights have been persisted; when the           *)
(* extraction call fails, sessionEnded stays false and no insights         *)
(* document is written, so that a repeated end-session request runs the    *)
(* extraction again.                                                       *)
(***************************************************************************)
C38_EndedAfterInsights == []C38_State /\ [][C38_Step]_vars

\* the extraction failed: the session is not ended and has no insights
C38_Witness ==
  /\ FailedBeforeEnd
  /\ es.error = Some(GenerationError)
  /\ conversations[es.bundleId].messages > 0
  /\ ~conversations[es.bundleId].sessionEnded

====
